---- MODULE Spec2Model ----
(***************************************************************************)
(* A model of the sirens package: the preset registry                     *)
(* (sirens/presets), the Siren class (sirens/core.py), the burst          *)
(* scheduler (sirens/generators) and the level model (sirens/utils).      *)
(*                                                                         *)
(* Python floats are IEEE-754 doubles.  The arithmetic below is done on   *)
(* doubles, not on reals: a double is a sign, a 53-bit significand held   *)
(* as a little-endian sequence of 14-bit limbs, and a binary exponent,    *)
(* and every operation rounds to nearest, ties to even, as the hardware   *)
(* does.  Overflow, subnormals, infinities and NaN are outside the        *)
(* values used here.                                                      *)
(***************************************************************************)
EXTENDS Integers, Sequences, FiniteSets, TLC

-----------------------------------------------------------------------------
(* Natural numbers of arbitrary size: little-endian limbs, radix 2^14,     *)
(* no leading zero limb; zero is the empty sequence.                       *)

LimbBits == 14
Base == 16384
MantBits == 53

Tl(a) == IF a = <<>> THEN <<>> ELSE Tail(a)
Hd(a) == IF a = <<>> THEN 0 ELSE Head(a)

RECURSIVE BNorm(_)
BNorm(bn) ==
    IF bn = <<>> THEN bn
    ELSE IF bn[Len(bn)] = 0 THEN BNorm(SubSeq(bn, 1, Len(bn) - 1)) ELSE bn

RECURSIVE BFromInt(_)
BFromInt(fi) == IF fi = 0 THEN <<>> ELSE <<fi % Base>> \o BFromInt(fi \div Base)

RECURSIVE BToInt(_)
BToInt(ti) == IF ti = <<>> THEN 0 ELSE Head(ti) + Base * BToInt(Tail(ti))

RECURSIVE BAddC(_, _, _)
BAddC(xa, ya, ca) ==
    IF xa = <<>> /\ ya = <<>> THEN (IF ca = 0 THEN <<>> ELSE <<ca>>)
    ELSE LET sa == Hd(xa) + Hd(ya) + ca
         IN  <<sa % Base>> \o BAddC(Tl(xa), Tl(ya), sa \div Base)

BAdd(a, b) == BAddC(a, b, 0)

RECURSIVE BSubB(_, _, _)
BSubB(xs, ys, cs) ==
    IF xs = <<>> THEN <<>>
    ELSE LET ss == Hd(xs) - Hd(ys) - cs
         IN  IF ss < 0 THEN <<ss + Base>> \o BSubB(Tl(xs), Tl(ys), 1)
                       ELSE <<ss>> \o BSubB(Tl(xs), Tl(ys), 0)

\* a - b for a >= b
BSub(a, b) == BNorm(BSubB(a, b, 0))

RECURSIVE BCmpAt(_, _, _)
BCmpAt(xc, yc, ic) ==
    IF ic = 0 THEN 0
    ELSE IF xc[ic] # yc[ic] THEN (IF xc[ic] < yc[ic] THEN -1 ELSE 1)
    ELSE BCmpAt(xc, yc, ic - 1)

\* -1, 0, 1 as a < b, a = b, a > b
BCmp(a, b) ==
    IF Len(a) # Len(b) THEN (IF Len(a) < Len(b) THEN -1 ELSE 1)
    ELSE BCmpAt(a, b, Len(a))

RECURSIVE BMulSmall(_, _, _)
BMulSmall(xm, dm, cm) ==
    IF xm = <<>> THEN (IF cm = 0 THEN <<>> ELSE <<cm>>)
    ELSE LET pm == Head(xm) * dm + cm
         IN  <<pm % Base>> \o BMulSmall(Tail(xm), dm, pm \div Base)

RECURSIVE BMulR(_, _)
BMulR(xr, yr) ==
    IF yr = <<>> THEN <<>>
    ELSE LET rest == BMulR(xr, Tail(yr))
         IN  BAdd(BMulSmall(xr, Head(yr), 0),
                  IF rest = <<>> THEN <<>> ELSE <<0>> \o rest)

BMul(a, b) == BNorm(BMulR(a, b))

\* a * 2^k
BShl(a, k) ==
    IF a = <<>> THEN <<>>
    ELSE BNorm([i \in 1..(k \div LimbBits) |-> 0]
               \o BMulSmall(a, 2^(k % LimbBits), 0))

\* floor(a / 2^k)
BShr(a, k) ==
    LET w == k \div LimbBits
        r == k % LimbBits
        t == IF w >= Len(a) THEN <<>> ELSE SubSeq(a, w + 1, Len(a))
    IN  BNorm([i \in 1..Len(t) |->
                 (t[i] \div 2^r)
                 + ((IF i < Len(t) THEN t[i + 1] ELSE 0) % 2^r) * 2^(LimbBits - r)])

RECURSIVE BitLenInt(_)
BitLenInt(bl) == IF bl = 0 THEN 0 ELSE 1 + BitLenInt(bl \div 2)

BBitLen(a) ==
    IF a = <<>> THEN 0 ELSE LimbBits * (Len(a) - 1) + BitLenInt(a[Len(a)])

BOdd(a) == a # <<>> /\ a[1] % 2 = 1

-----------------------------------------------------------------------------
(* Doubles.  [neg, m, e] stands for (-1)^neg * m * 2^e, with m either      *)
(* zero or of exactly MantBits bits.                                       *)

FZero == [neg |-> FALSE, m |-> <<>>, e |-> 0]

\* the double nearest to (-1)^neg * n * 2^e (plus a nonzero fraction of
\* 2^e when sticky), ties to even
FRound(neg, n, e, sticky) ==
    LET \* q2 * 2^(e + sh), q2 of MantBits bits or 2^MantBits
        Packed(sh, q2) ==
            IF BBitLen(q2) > MantBits
            THEN [neg |-> neg, m |-> BShr(q2, 1), e |-> e + sh + 1]
            ELSE [neg |-> neg, m |-> q2, e |-> e + sh]
        \* q = floor(n / 2^sh), and c compares the remainder with a half
        Nearest(sh, q, c) ==
            Packed(sh, IF c > 0 \/ (c = 0 /\ (sticky \/ BOdd(q)))
                       THEN BAdd(q, <<1>>) ELSE q)
        Shifted(sh, q) ==
            Nearest(sh, q, BCmp(BSub(n, BShl(q, sh)), BShl(<<1>>, sh - 1)))
        \* L is the number of bits of n
        Sized(L) ==
            IF L = 0 THEN FZero
            ELSE IF L <= MantBits
            THEN [neg |-> neg, m |-> BShl(n, MantBits - L), e |-> e - (MantBits - L)]
            ELSE Shifted(L - MantBits, BShr(n, L - MantBits))
    IN  Sized(BBitLen(n))

\* float(n) for a Python int n
FInt(n) == FRound(n < 0, BFromInt(IF n < 0 THEN -n ELSE n), 0, FALSE)

FNeg(a) == IF a.m = <<>> THEN a ELSE [a EXCEPT !.neg = ~a.neg]

FIsZero(a) == a.m = <<>>

\* a * b
FMul(a, b) ==
    IF FIsZero(a) \/ FIsZero(b) THEN FZero
    ELSE FRound(a.neg # b.neg, BMul(a.m, b.m), a.e + b.e, FALSE)

\* long division: dk more quotient bits of (st.q * dd + st.r) / dd
RECURSIVE DivBits(_, _, _)
DivBits(st, dd, dk) ==
    IF dk = 0 THEN st
    ELSE LET r2 == BShl(st.r, 1)
         IN  IF BCmp(r2, dd) >= 0
             THEN DivBits([q |-> BAdd(BShl(st.q, 1), <<1>>), r |-> BSub(r2, dd)],
                          dd, dk - 1)
             ELSE DivBits([q |-> BShl(st.q, 1), r |-> r2], dd, dk - 1)

\* a / b for b # 0
FDiv(a, b) ==
    LET First(ge) == [q |-> IF ge THEN <<1>> ELSE <<>>,
                      r |-> IF ge THEN BSub(a.m, b.m) ELSE a.m]
        Quotient(qr) ==
            FRound(a.neg # b.neg, qr.q, a.e - b.e - (MantBits + 2), qr.r # <<>>)
    IN  IF FIsZero(a) THEN FZero
        ELSE Quotient(DivBits(First(BCmp(a.m, b.m) >= 0), b.m, MantBits + 2))

\* -1, 0, 1 as a < b, a = b, a > b
FCmpAbs(a, b) ==
    IF FIsZero(a) /\ FIsZero(b) THEN 0
    ELSE IF FIsZero(a) THEN -1
    ELSE IF FIsZero(b) THEN 1
    ELSE IF a.e # b.e THEN (IF a.e < b.e THEN -1 ELSE 1)
    ELSE BCmp(a.m, b.m)

FCmp(a, b) ==
    IF FIsZero(a) /\ FIsZero(b) THEN 0
    ELSE IF a.neg /\ ~b.neg THEN -1
    ELSE IF ~a.neg /\ b.neg THEN 1
    ELSE IF a.neg THEN FCmpAbs(b, a) ELSE FCmpAbs(a, b)

FLt(a, b) == FCmp(a, b) < 0
FLe(a, b) == FCmp(a, b) <= 0

\* a + b
FAdd(a, b) ==
    LET \* x * 2^e0 and y * 2^e0 are |a| and |b|, and c compares them
        Signed(e0, x, y, c) ==
            IF a.neg # b.neg /\ c = 0 THEN FZero
            ELSE FRound(IF a.neg = b.neg \/ c > 0 THEN a.neg ELSE b.neg,
                        IF a.neg = b.neg THEN BAdd(x, y)
                        ELSE IF c > 0 THEN BSub(x, y) ELSE BSub(y, x),
                        e0, FALSE)
        Compared(e0, x, y) == Signed(e0, x, y, BCmp(x, y))
        Aligned(e0) == Compared(e0, BShl(a.m, a.e - e0), BShl(b.m, b.e - e0))
    IN  IF FIsZero(a) THEN b
        ELSE IF FIsZero(b) THEN a
        ELSE Aligned(IF a.e < b.e THEN a.e ELSE b.e)

\* a - b
FSub(a, b) == FAdd(a, FNeg(b))

\* int(a): truncation toward zero
FTrunc(a) ==
    LET Signed(n) == IF a.neg THEN -n ELSE n
    IN  Signed(BToInt(IF a.e >= 0 THEN BShl(a.m, a.e) ELSE BShr(a.m, -a.e)))

\* math.floor(a)
FFloor(a) ==
    LET Below(n) == IF a.neg /\ FCmp(FInt(n), a) # 0 THEN n - 1 ELSE n
    IN  Below(FTrunc(a))

\* the double a decimal literal n/d denotes (0.4 is Dec(4, 10))
Dec(n, d) == FDiv(FInt(n), FInt(d))

\* round(a, 1): the double nearest to the decimal with one fractional digit
\* that is nearest to the exact value of a, ties to the even digit
FRound1(a) ==
    LET \* k tenths
        Tenths(k) == Dec(IF a.neg THEN -k ELSE k, 10)
        \* q = floor(t / 2^sh), and c compares the remainder with a half
        Nearest(q, c) ==
            Tenths(BToInt(IF c > 0 \/ (c = 0 /\ BOdd(q)) THEN BAdd(q, <<1>>) ELSE q))
        Shifted(t, sh, q) ==
            Nearest(q, IF sh <= 0 THEN -1
                       ELSE BCmp(BSub(t, BShl(q, sh)), BShl(<<1>>, sh - 1)))
        \* t * 2^(-sh) is 10 * |a|
        Scaled(t, sh) == Shifted(t, sh, IF sh <= 0 THEN BShl(t, -sh) ELSE BShr(t, sh))
    IN  IF FIsZero(a) THEN a ELSE Scaled(BMulSmall(a.m, 10, 0), -a.e)

-----------------------------------------------------------------------------
(* Python values: a number (int or float, held as the double it denotes), *)
(* a string, or a tuple.  A dict is a function from its keys to values;   *)
(* dict objects live in heap and are named by reference, so that two     *)
(* names for one object and a copy of it are different things.           *)

Num(x) == [t |-> "num", v |-> x]
Str(s) == [t |-> "str", v |-> s]
Tup(s) == [t |-> "tuple", v |-> s]
PyInt(n) == Num(FInt(n))
PyFloat(n, d) == Num(Dec(n, d))

None == [t |-> "NoneType"]
NoRef == 0

\* d with key k removed, and d with d[k] = x
DictDel(d, k) == [f \in DOMAIN d \ {k} |-> d[f]]
DictSet(d, k, x) == [f \in DOMAIN d \cup {k} |-> IF f = k THEN x ELSE d[f]]

\* the literal of sirens/presets/__init__.py
InitialPresets ==
    [police |->
        [freqs |-> Tup(<<PyInt(435), PyInt(580)>>),
         tone_duration |-> PyFloat(4, 10),
         attack |-> PyFloat(5, 100),
         decay |-> PyFloat(5, 100),
         volume |-> PyFloat(9, 10),
         max_db |-> PyInt(110),
         description |-> Str("French Police two-tone siren")],
     firefighter |->
        [freqs |-> Tup(<<PyInt(370), PyInt(470)>>),
         tone_duration |-> PyFloat(7, 10),
         attack |-> PyFloat(1, 10),
         decay |-> PyFloat(1, 10),
         volume |-> PyFloat(10, 10),
         max_db |-> PyInt(112),
         description |-> Str("French Firefighter (Sapeurs-Pompiers) two-tone siren")],
     samu |->
        [freqs |-> Tup(<<PyInt(435), PyInt(651)>>),
         tone_duration |-> PyFloat(3, 10),
         attack |-> PyFloat(4, 100),
         decay |-> PyFloat(4, 100),
         volume |-> PyFloat(85, 100),
         max_db |-> PyInt(108),
         description |-> Str("French SAMU/Ambulance two-tone siren")],
     hi_lo |->
        [freqs |-> Tup(<<PyInt(440), PyInt(660)>>),
         tone_duration |-> PyFloat(5, 10),
         attack |-> PyFloat(5, 100),
         decay |-> PyFloat(5, 100),
         volume |-> PyFloat(9, 10),
         max_db |-> PyInt(110),
         description |-> Str("European-style Hi-Lo sweep siren")]]

BuiltinNames == <<"police", "firefighter", "samu", "hi_lo">>

VARIABLES
    PRESETS,    \* the module-level registry: name -> reference of a dict
    heap,       \* reference -> dict object, for the live dict objects
    caller,     \* the dict object the calling code holds (its `preset`), or NoRef
    request,    \* the arguments the calling code passes to Siren(...), or None
    siren,      \* the Siren the calling code holds, or None
    result,     \* what the last call did: its name, arguments and outcome
    wf,         \* the running write_wav: its arguments and its place, or None
    disk,       \* the files: name -> header fields and frames of the file
    loop        \* the running generate_siren_signal: its local variables, or None

vars == <<PRESETS, heap, caller, request, siren, result, wf, disk, loop>>

\* the registry by value: name -> the dict stored under it
Registry == [n \in DOMAIN PRESETS |-> heap[PRESETS[n]]]

\* a reference no live object has: the least one
NewRef(h) == CHOOSE r \in 1..(Cardinality(DOMAIN h) + 1) :
                 r \notin DOMAIN h /\ \A q \in 1..(r - 1) : q \in DOMAIN h

\* the keys of the registry, in the order the dict keeps them
KeyOrder == <<"police", "firefighter", "samu", "hi_lo", "custom">>

\* the references the program holds: the registry's, the caller's, the siren's
Roots(presets, c, s) ==
    LET keys == SelectSeq(KeyOrder, LAMBDA n : n \in DOMAIN presets)
    IN  [i \in 1..Len(keys) |-> presets[keys[i]]]
        \o (IF c = NoRef THEN <<>> ELSE <<c>>)
        \o (IF s = None THEN <<>> ELSE <<s.p>>)

\* Reference counting: the objects no name reaches any more are gone.  The
\* program never looks at the address of an object, only at whether two
\* references are the same one, so the live objects are kept numbered in
\* the order in which Roots reaches them.
Collect(presets, h, c, s) ==
    LET roots == Roots(presets, c, s)
        live == {roots[i] : i \in 1..Len(roots)}
        First(r) == CHOOSE i \in 1..Len(roots) :
                        roots[i] = r /\ \A j \in 1..(i - 1) : roots[j] # r
        Ren(r) == Cardinality({roots[j] : j \in 1..First(r)})
    IN  [PRESETS |-> [n \in DOMAIN presets |-> Ren(presets[n])],
         heap |-> [k \in 1..Cardinality(live) |-> h[CHOOSE r \in live : Ren(r) = k]],
         caller |-> IF c = NoRef THEN NoRef ELSE Ren(c),
         siren |-> IF s = None THEN None ELSE [s EXCEPT !.p = Ren(s.p)]]

\* the program's references and objects become those of st
Store(st) ==
    /\ PRESETS' = st.PRESETS
    /\ heap' = st.heap
    /\ caller' = st.caller
    /\ siren' = st.siren

-----------------------------------------------------------------------------
(* sirens/presets/__init__.py                                             *)

required_fields == <<"freqs", "tone_duration", "attack", "decay", "volume", "max_db">>
numeric_fields == <<"tone_duration", "attack", "decay", "volume", "max_db">>

IsNumber(x) == x.t = "num"
Positive(x) == ~x.v.neg /\ ~FIsZero(x.v)
Negative(x) == x.v.neg /\ ~FIsZero(x.v)

\* the first element of the sequence fields, from index at on, that is in
\* the set bad, or ""
RECURSIVE FirstField(_, _, _)
FirstField(fields, bad, at) ==
    IF at > Len(fields) THEN ""
    ELSE IF fields[at] \in bad THEN fields[at]
    ELSE FirstField(fields, bad, at + 1)

\* validate_siren_preset without the upper limit of the volume (lines 77-78)
validate_siren_preset_no_upper_limit(preset) ==
    LET Fields(fs) == {fs[i] : i \in 1..Len(fs)}
        missing == FirstField(required_fields,
                              {f \in Fields(required_fields) : f \notin DOMAIN preset}, 1)
        NotNonNegative(f) == ~IsNumber(preset[f]) \/ Negative(preset[f])
        badnum == FirstField(numeric_fields,
                             {f \in Fields(numeric_fields) : NotNonNegative(f)}, 1)
    IN  IF missing # ""
        THEN [is_valid |-> FALSE, error |-> "Missing required field: " \o missing]
        ELSE IF preset.freqs.t # "tuple" \/ Len(preset.freqs.v) # 2
        THEN [is_valid |-> FALSE,
              error |-> "freqs must be a tuple or list of 2 frequencies"]
        ELSE IF ~ \A i \in 1..2 :
                     IsNumber(preset.freqs.v[i]) /\ Positive(preset.freqs.v[i])
        THEN [is_valid |-> FALSE, error |-> "Frequencies must be positive numbers"]
        ELSE IF badnum # ""
        THEN [is_valid |-> FALSE, error |-> badnum \o " must be a non-negative number"]
        ELSE [is_valid |-> TRUE, error |-> "None"]

\* validate_siren_preset(preset): (is_valid, error_message)
validate_siren_preset(preset) ==
    LET Fields(fs) == {fs[i] : i \in 1..Len(fs)}
        missing == FirstField(required_fields,
                              {f \in Fields(required_fields) : f \notin DOMAIN preset}, 1)
        NotNonNegative(f) == ~IsNumber(preset[f]) \/ Negative(preset[f])
        badnum == FirstField(numeric_fields,
                             {f \in Fields(numeric_fields) : NotNonNegative(f)}, 1)
    IN  IF missing # ""
        THEN [is_valid |-> FALSE, error |-> "Missing required field: " \o missing]
        ELSE IF preset.freqs.t # "tuple" \/ Len(preset.freqs.v) # 2
        THEN [is_valid |-> FALSE,
              error |-> "freqs must be a tuple or list of 2 frequencies"]
        ELSE IF ~ \A i \in 1..2 :
                     IsNumber(preset.freqs.v[i]) /\ Positive(preset.freqs.v[i])
        THEN [is_valid |-> FALSE, error |-> "Frequencies must be positive numbers"]
        ELSE IF badnum # ""
        THEN [is_valid |-> FALSE, error |-> badnum \o " must be a non-negative number"]
        ELSE IF FCmp(preset.volume.v, FInt(1)) > 0
        THEN [is_valid |-> FALSE, error |-> "volume must be between 0 and 1"]
        ELSE [is_valid |-> TRUE, error |-> "None"]

\* lines 104-109 without lines 105-107: the preset is stored as it is
Registered_as_given(presets, h, name, preset) ==
    [PRESETS |-> DictSet(presets, name, preset), heap |-> h]

\* lines 104-109: PRESETS and heap once preset is stored under name
Registered(presets, h, name, preset) ==
    IF "description" \notin DOMAIN h[preset]
    THEN LET copy == NewRef(h)
             described == DictSet(h[preset], "description",
                                  Str("Custom " \o name \o " siren"))
         IN  [PRESETS |-> DictSet(presets, name, copy),
              heap |-> [r \in DOMAIN h \cup {copy} |->
                          IF r = copy THEN described ELSE h[r]]]
    ELSE [PRESETS |-> DictSet(presets, name, preset), heap |-> h]

\* register_custom_siren storing the preset before it validates it
register_custom_siren_store_first(name) ==
    /\ caller # NoRef
    /\ \E v \in {validate_siren_preset(heap[caller])},
          reg \in {Registered(PRESETS, heap, name, caller)} :
           /\ \E st \in {Collect(reg.PRESETS, reg.heap, caller, siren)} : Store(st)
           /\ result' = IF ~v.is_valid
                         THEN [call |-> "register_custom_siren", name |-> name,
                               raised |-> "ValueError",
                               value |-> Str("Invalid siren preset: " \o v.error)]
                         ELSE [call |-> "register_custom_siren", name |-> name,
                               raised |-> "None", value |-> None]
    /\ UNCHANGED <<request, wf, disk, loop>>

\* register_custom_siren(name, preset), preset being the caller's dict
register_custom_siren(name) ==
    /\ caller # NoRef
    /\ \E v \in {validate_siren_preset(heap[caller])},
          reg \in {Registered(PRESETS, heap, name, caller)} :
           IF ~v.is_valid
           THEN /\ result' = [call |-> "register_custom_siren", name |-> name,
                              raised |-> "ValueError",
                              value |-> Str("Invalid siren preset: " \o v.error)]
                /\ UNCHANGED <<PRESETS, heap>>
                /\ UNCHANGED <<caller, siren>>
           ELSE /\ \E st \in {Collect(reg.PRESETS, reg.heap, caller, siren)} : Store(st)
                /\ result' = [call |-> "register_custom_siren", name |-> name,
                              raised |-> "None", value |-> None]
    /\ UNCHANGED <<request, wf, disk, loop>>

\* the dict get_available_sirens() returns for the registry presets with
\* the objects h: name -> description, "<name> siren" for an entry that
\* has none
AvailableSirens(presets, h) ==
    [name \in DOMAIN presets |->
        IF "description" \in DOMAIN h[presets[name]]
        THEN h[presets[name]].description
        ELSE Str(name \o " siren")]

\* get_available_sirens()
get_available_sirens ==
    /\ result' = [call |-> "get_available_sirens", name |-> "", raised |-> "None",
                  value |-> AvailableSirens(PRESETS, heap)]
    /\ UNCHANGED <<PRESETS, heap, caller, request, siren, wf, disk, loop>>

\* the calling code builds a preset dict: preset = {...}
NewPreset(d) ==
    LET r == NewRef(heap)
        h == [x \in DOMAIN heap \cup {r} |-> IF x = r THEN d ELSE heap[x]]
    IN  /\ \E st \in {Collect(PRESETS, h, r, siren)} : Store(st)
        /\ result' = [call |-> "dict", name |-> "", raised |-> "None", value |-> None]
        /\ UNCHANGED <<request, wf, disk, loop>>

-----------------------------------------------------------------------------
(* sirens/utils/__init__.py                                               *)

One == FInt(1)
Ten == FInt(10)
Half == Dec(5, 10)

\* max(1, x) and min(1.0, x) of Python: the first argument unless the
\* second is strictly greater, resp. strictly less
Max1(x) == IF FCmp(x, One) > 0 THEN x ELSE One
Min1(x) == IF FCmp(x, One) < 0 THEN x ELSE One

\* math.log10 on the arguments the model passes to it
log10(x) ==
    CASE x = Dec(1, 2) -> [neg |-> TRUE, m |-> <<14847, 637, 309, 1233>>, e |-> -54]
      [] x = FInt(1) -> FZero
      [] x = FInt(5) -> [neg |-> FALSE, m |-> <<769, 7873, 8037, 1431>>, e |-> -53]
      [] x = FInt(10) -> FInt(1)
      [] x = FInt(20) -> [neg |-> FALSE, m |-> <<7808, 4255, 4173, 1332>>, e |-> -52]
      [] x = FInt(100) -> FInt(2)

\* envelope(samples, attack, decay, sample_rate) for a list of
\* total_samples samples: the exception it raises and the length of the
\* list it returns.  numpy refuses to store the attack_samples values of
\* the ramp in the shorter slice env[:attack_samples] (a one-value ramp
\* is broadcast instead).
envelope(total_samples, attack, decay, sample_rate) ==
    LET Ramped(attack_samples) ==
            IF attack_samples > 0 /\ attack_samples > total_samples
               /\ attack_samples # 1
            THEN [raised |-> "ValueError", n |-> 0]
            ELSE [raised |-> "None", n |-> total_samples]
    IN  Ramped(FTrunc(FMul(attack, FInt(sample_rate))))

\* numpy.linspace(start, stop, num): num = 1 gives the start alone;
\* otherwise the values start + i * step, the last one set to stop
linspace(start, stop, num) ==
    LET Stepped(step) ==
            [i \in 1..num |-> IF i = num THEN stop
                              ELSE FAdd(FMul(FInt(i - 1), step), start)]
    IN  IF num = 1 THEN <<start>>
        ELSE Stepped(FDiv(FSub(stop, start), FInt(num - 1)))

\* envelope with an attack ramp of at least one sample whatever the
\* attack time is
envelope_always_fades(samples, attack, decay, sample_rate) ==
    LET total_samples == Len(samples)
        Applied(env) ==
            [raised |-> "None",
             value |-> [i \in 1..total_samples |-> FMul(samples[i], env[i])]]
        Decayed(env, decay_samples, ramp) ==
            Applied(IF decay_samples > 0 /\ total_samples > decay_samples
                    THEN [i \in 1..total_samples |->
                            IF i > total_samples - decay_samples
                            THEN ramp[i - (total_samples - decay_samples)]
                            ELSE env[i]]
                    ELSE env)
        Attacked(attack_samples, decay_samples, ramp) ==
            IF attack_samples > total_samples /\ attack_samples # 1
            THEN [raised |-> "ValueError", value |-> None]
            ELSE Decayed([i \in 1..total_samples |->
                            IF i <= attack_samples THEN ramp[i] ELSE One],
                         decay_samples, linspace(One, FZero, decay_samples))
        Counted(attack_samples, decay_samples) ==
            Attacked(attack_samples, decay_samples,
                     linspace(FZero, One, attack_samples))
    IN  Counted(FTrunc(FMul(attack, FInt(sample_rate))) + 1,
                FTrunc(FMul(decay, FInt(sample_rate))))

\* envelope(samples, attack, decay, sample_rate) on the list samples: the
\* exception it raises, or the list it returns.  Line 28 stores a ramp of
\* attack_samples values in env[:attack_samples], which has no more than
\* total_samples places: numpy raises ValueError unless the lengths agree
\* or the ramp is a single value; line 32 is guarded by the length.
envelope_samples(samples, attack, decay, sample_rate) ==
    LET total_samples == Len(samples)
        Applied(env) ==
            [raised |-> "None",
             value |-> [i \in 1..total_samples |-> FMul(samples[i], env[i])]]
        Decayed(env, decay_samples, ramp) ==
            Applied(IF decay_samples > 0 /\ total_samples > decay_samples
                    THEN [i \in 1..total_samples |->
                            IF i > total_samples - decay_samples
                            THEN ramp[i - (total_samples - decay_samples)]
                            ELSE env[i]]
                    ELSE env)
        Attacked(attack_samples, decay_samples, ramp) ==
            IF attack_samples > 0 /\ attack_samples > total_samples
               /\ attack_samples # 1
            THEN [raised |-> "ValueError", value |-> None]
            ELSE Decayed([i \in 1..total_samples |->
                            IF attack_samples > 0 /\ i <= attack_samples
                            THEN ramp[i] ELSE One],
                         decay_samples, linspace(One, FZero, decay_samples))
        Counted(attack_samples, decay_samples) ==
            Attacked(attack_samples, decay_samples,
                     linspace(FZero, One, attack_samples))
    IN  Counted(FTrunc(FMul(attack, FInt(sample_rate))),
                FTrunc(FMul(decay, FInt(sample_rate))))

\* estimate_db taking log10 of the distance itself, as Siren._estimate_db
\* of sirens/__init__.py does
estimate_db_log_of_distance(max_db_at_source, distance, night_mode) ==
    LET Limited(estimated_db) ==
            FRound1(IF night_mode /\ FCmp(FInt(90), estimated_db) < 0
                    THEN FInt(90) ELSE estimated_db)
        Reduced(db_reduction) == Limited(FSub(max_db_at_source, db_reduction))
    IN  IF FCmp(distance, FZero) <= 0 THEN max_db_at_source
        ELSE Reduced(FMul(FInt(20), log10(distance)))

\* estimate_db(max_db_at_source, distance, night_mode)
estimate_db(max_db_at_source, distance, night_mode) ==
    LET Limited(estimated_db) ==
            FRound1(IF night_mode /\ FCmp(FInt(90), estimated_db) < 0
                    THEN FInt(90) ELSE estimated_db)
        Reduced(db_reduction) == Limited(FSub(max_db_at_source, db_reduction))
    IN  IF FCmp(distance, FZero) <= 0 THEN max_db_at_source
        ELSE Reduced(FMul(FInt(20), log10(Max1(distance))))

-----------------------------------------------------------------------------
(* sirens/generators/__init__.py.  A signal is kept as the sequence of    *)
(* its segments, each a tone of n samples at one of the two base          *)
(* frequencies or n samples of silence; the sample values, and with them  *)
(* the random 1% detuning of each tone, are left out.                     *)

\* generate_sine_wave with n = round(sample_rate * duration), halves up
generate_sine_wave_rounded(freq, duration, sample_rate, attack, decay) ==
    LET Enveloped(n, enveloped) ==
            IF n <= 0 THEN [raised |-> "ValueError", seg |-> None]
            ELSE IF n = 1 THEN [raised |-> "ZeroDivisionError", seg |-> None]
            ELSE IF enveloped.raised # "None"
            THEN [raised |-> enveloped.raised, seg |-> None]
            ELSE [raised |-> "None",
                  seg |-> [kind |-> "tone", freq |-> freq, n |-> enveloped.n]]
        Normalized(n) == Enveloped(n, envelope(n, attack, decay, sample_rate))
    IN  Normalized(FFloor(FAdd(FMul(FInt(sample_rate), duration), Dec(1, 2))))

\* generate_sine_wave(freq, duration, sample_rate, attack, decay): min()
\* of an empty list raises ValueError; a single sample is sin(0) = 0, so
\* that max_val is 0.0 and the division raises ZeroDivisionError
generate_sine_wave(freq, duration, sample_rate, attack, decay) ==
    LET Enveloped(n, enveloped) ==
            IF n <= 0 THEN [raised |-> "ValueError", seg |-> None]
            ELSE IF n = 1 THEN [raised |-> "ZeroDivisionError", seg |-> None]
            ELSE IF enveloped.raised # "None"
            THEN [raised |-> enveloped.raised, seg |-> None]
            ELSE [raised |-> "None",
                  seg |-> [kind |-> "tone", freq |-> freq, n |-> enveloped.n]]
        Normalized(n) == Enveloped(n, envelope(n, attack, decay, sample_rate))
    IN  Normalized(FTrunc(FMul(FInt(sample_rate), duration)))

Min(a, b) == IF b < a THEN b ELSE a

\* the while loop with burst_size cycles in every burst, whatever is left
RECURSIVE BurstLoop_whole_bursts(_, _, _, _, _, _)
BurstLoop_whole_bursts(signal, remaining_cycles, burst_size, low, high, pause) ==
    IF remaining_cycles > 0
    THEN LET remaining == remaining_cycles - Min(remaining_cycles, burst_size)
             tones == [i \in 1..(2 * burst_size) |-> IF i % 2 = 1 THEN low ELSE high]
         IN  BurstLoop_whole_bursts(signal \o tones
                                      \o (IF remaining > 0 THEN <<pause>> ELSE <<>>),
                                    remaining, burst_size, low, high, pause)
    ELSE signal

\* the while loop with a pause after every burst, the last one too
RECURSIVE BurstLoop_pause_after_each(_, _, _, _, _, _)
BurstLoop_pause_after_each(signal, remaining_cycles, burst_size, low, high, pause) ==
    IF remaining_cycles > 0
    THEN LET burst == Min(remaining_cycles, burst_size)
             remaining == remaining_cycles - burst
             tones == [i \in 1..(2 * burst) |-> IF i % 2 = 1 THEN low ELSE high]
         IN  BurstLoop_pause_after_each(signal \o tones \o <<pause>>,
                                        remaining, burst_size, low, high, pause)
    ELSE signal

\* the while loop of generate_siren_signal; low and high are the two
\* tones, pause the silence appended after a burst that is not the last
RECURSIVE BurstLoop(_, _, _, _, _, _)
BurstLoop(signal, remaining_cycles, burst_size, low, high, pause) ==
    IF remaining_cycles > 0
    THEN LET burst == Min(remaining_cycles, burst_size)
             remaining == remaining_cycles - burst
             tones == [i \in 1..(2 * burst) |-> IF i % 2 = 1 THEN low ELSE high]
         IN  BurstLoop(signal \o tones
                         \o (IF remaining > 0 THEN <<pause>> ELSE <<>>),
                       remaining, burst_size, low, high, pause)
    ELSE signal

\* generate_siren_signal(...): the exception it raises and the signal
generate_siren_signal(tone_duration, attack, decay, cycles, duty_cycle, burst_size, sample_rate) ==
    LET Pause(pause_duration) ==
            [kind |-> "silence", freq |-> "",
             n |-> FTrunc(FMul(pause_duration, FInt(sample_rate)))]
        Signal(low, high, pause) ==
            IF cycles > 0 /\ low.raised # "None"
            THEN [raised |-> low.raised, signal |-> <<>>]
            ELSE [raised |-> "None",
                  signal |-> BurstLoop(<<>>, cycles, burst_size, low.seg, high.seg, pause)]
    IN  Signal(generate_sine_wave("freq1", tone_duration, sample_rate, attack, decay),
               generate_sine_wave("freq2", tone_duration, sample_rate, attack, decay),
               Pause(FDiv(FMul(FMul(tone_duration, FInt(2)), FSub(One, duty_cycle)),
                          duty_cycle)))

\* len() of a signal
RECURSIVE SignalLen(_)
SignalLen(sg) == IF sg = <<>> THEN 0 ELSE Head(sg).n + SignalLen(Tail(sg))

\* The sample values.  math.sin and random.uniform are not computed: the
\* list combined of line 31 is an input, drawn from the lists that start
\* with sin(0) + 0.15 sin(0) = 0.

FAbs(x) == [x EXCEPT !.neg = FALSE]

\* max(abs(min(combined)), abs(max(combined))) of line 34
max_val(combined) ==
    LET Larger(lo, hi) == IF FCmp(FAbs(hi), FAbs(lo)) > 0 THEN FAbs(hi) ELSE FAbs(lo)
        values == {combined[i] : i \in DOMAIN combined}
    IN  Larger(CHOOSE x \in values : \A y \in values : FCmp(x, y) <= 0,
               CHOOSE x \in values : \A y \in values : FCmp(x, y) >= 0)

\* generate_sine_wave without the normalization of lines 34-35
sine_wave_samples_not_normalized(combined, attack, decay, sample_rate) ==
    IF combined = <<>> THEN [raised |-> "ValueError", value |-> None]
    ELSE IF FIsZero(max_val(combined))
    THEN [raised |-> "ZeroDivisionError", value |-> None]
    ELSE envelope_samples(combined, attack, decay, sample_rate)

\* lines 34-38 of generate_sine_wave on the list combined: the exception
\* raised, or the list returned
sine_wave_samples(combined, attack, decay, sample_rate) ==
    LET Normalized(peak) ==
            envelope_samples([i \in DOMAIN combined |-> FDiv(combined[i], peak)],
                             attack, decay, sample_rate)
    IN  IF combined = <<>> THEN [raised |-> "ValueError", value |-> None]
        ELSE IF FIsZero(max_val(combined))
        THEN [raised |-> "ZeroDivisionError", value |-> None]
        ELSE Normalized(max_val(combined))

\* lines 84-98 of generate_siren_signal: the samples of the signal sg
\* whose low tones are the list low and whose high tones are the list
\* high, a pause being [0] * n, each sample multiplied by volume
RECURSIVE siren_signal_samples(_, _, _, _)
siren_signal_samples(sg, low, high, volume) ==
    IF sg = <<>> THEN <<>>
    ELSE (IF Head(sg).kind = "silence" THEN [i \in 1..Head(sg).n |-> FZero]
          ELSE [i \in 1..Head(sg).n |->
                  FMul(IF Head(sg).freq = "freq1" THEN low[i] ELSE high[i], volume)])
         \o siren_signal_samples(Tail(sg), low, high, volume)

-----------------------------------------------------------------------------
(* sirens/core.py                                                         *)

sample_rate == 44100

\* the preset taken without .copy(): the registry's own dict
DictCopy_same_object(h, src) == [ref |-> src, heap |-> h]

\* dict.copy(): a new object with the same items
DictCopy(h, src) ==
    LET copy == NewRef(h)
    IN  [ref |-> copy,
         heap |-> [r \in DOMAIN h \cup {copy} |-> IF r = copy THEN h[src] ELSE h[r]]]

\* the traffic pattern: duty cycle and burst size
Heavy == [duty_cycle |-> Dec(9, 10), burst_size |-> 6]
Light == [duty_cycle |-> Dec(6, 10), burst_size |-> 2]
Medium == [duty_cycle |-> Dec(8, 10), burst_size |-> 4]

\* the patterns of heavy and light traffic taken for one another
Pattern_swapped(traffic_density) ==
    IF traffic_density = "heavy" THEN Light
    ELSE IF traffic_density = "light" THEN Heavy
    ELSE Medium

Pattern(traffic_density) ==
    IF traffic_density = "heavy" THEN Heavy
    ELSE IF traffic_density = "light" THEN Light
    ELSE Medium

\* the adjustments without min(1.0, ...): a siren nearer than 10 m is louder
AdjustedVolume_unclamped(volume, night_mode, distance) ==
    LET Square(ratio) == FMul(ratio, ratio)
    IN  FMul(IF night_mode THEN FMul(volume, Half) ELSE volume,
             Square(FDiv(Ten, Max1(distance))))

\* the volume after the night-mode and the distance adjustments
AdjustedVolume(volume, night_mode, distance) ==
    LET Square(ratio) == FMul(ratio, ratio)
    IN  FMul(IF night_mode THEN FMul(volume, Half) ELSE volume,
             Min1(Square(FDiv(Ten, Max1(distance)))))

\* the lookup among the built-in names only, as the Siren class of
\* sirens/__init__.py makes it in its own table
PresetsGet_builtin_only(name) ==
    IF name \in {BuiltinNames[i] : i \in 1..4} THEN PRESETS[name] ELSE PRESETS["police"]

\* self.presets.get(name, self.presets["police"])
PresetsGet(name) ==
    IF name \in DOMAIN PRESETS THEN PRESETS[name] ELSE PRESETS["police"]

\* Siren.__init__: the exception it raises, the new object and the heap
SirenInit(name, total_duration, night_mode, traffic_density, distance) ==
    LET \* ref is self.p, p its items before and h the heap after lines 44-49
        Generated(ref, p, h, pattern, cycles, gen) ==
            IF FIsZero(p.tone_duration.v)
            THEN [raised |-> "ZeroDivisionError", self |-> None, heap |-> h]
            ELSE IF gen.raised # "None"
            THEN [raised |-> gen.raised, self |-> None, heap |-> h]
            ELSE [raised |-> "None",
                  self |-> [p |-> ref,
                            freq1 |-> p.freqs.v[1],
                            freq2 |-> p.freqs.v[2],
                            tone_duration |-> p.tone_duration,
                            attack |-> p.attack,
                            decay |-> p.decay,
                            total_duration |-> total_duration,
                            sample_rate |-> sample_rate,
                            night_mode |-> night_mode,
                            traffic_density |-> traffic_density,
                            distance |-> distance,
                            duty_cycle |-> pattern.duty_cycle,
                            burst_size |-> pattern.burst_size,
                            cycles |-> cycles,
                            samples |-> gen.signal],
                  heap |-> h]
        Counted(ref, p, h, pattern, cycles) ==
            Generated(ref, p, h, pattern, cycles,
                      generate_siren_signal(p.tone_duration.v, p.attack.v, p.decay.v,
                                            cycles, pattern.duty_cycle,
                                            pattern.burst_size, sample_rate))
        Patterned(ref, p, h, pattern) ==
            Counted(ref, p, h, pattern,
                    FTrunc(FMul(FDiv(total_duration, FMul(FInt(2), p.tone_duration.v)),
                                pattern.duty_cycle)))
        Adjusted(cp, p) ==
            Patterned(cp.ref, p,
                      [cp.heap EXCEPT ![cp.ref].volume =
                           Num(AdjustedVolume(p.volume.v, night_mode, distance))],
                      Pattern(traffic_density))
        Copied(cp) == Adjusted(cp, cp.heap[cp.ref])
    IN  Copied(DictCopy(heap, PresetsGet(name)))

\* siren = Siren(name, total_duration, night_mode, traffic_density, distance)
Siren(name, total_duration, night_mode, traffic_density, distance) ==
    \E new \in {SirenInit(name, total_duration, night_mode, traffic_density, distance)} :
        /\ request' = [name |-> name, total_duration |-> total_duration,
                       night_mode |-> night_mode,
                       traffic_density |-> traffic_density, distance |-> distance]
        /\ \E st \in {Collect(PRESETS, new.heap, caller,
                                IF new.raised = "None" THEN new.self ELSE siren)} :
               Store(st)
        /\ result' = [call |-> "Siren", name |-> name, raised |-> new.raised,
                      value |-> None]
        /\ UNCHANGED <<wf, disk, loop>>

\* siren.get_info()
get_info ==
    /\ siren # None
    /\ \E p \in {heap[siren.p]} :
         \E info \in {[frequencies |-> p.freqs,
                       tone_duration |-> siren.tone_duration,
                       night_mode |-> siren.night_mode,
                       traffic_density |-> siren.traffic_density,
                       distance |-> siren.distance,
                       max_db_at_source |-> p.max_db,
                       estimated_db |-> Num(estimate_db(p.max_db.v, siren.distance,
                                                        siren.night_mode))]} :
           result' = [call |-> "get_info", name |-> "", raised |-> "None",
                      value |-> info]
    /\ UNCHANGED <<PRESETS, heap, caller, request, siren, wf, disk, loop>>

\* the lists that line 31 of generate_sine_wave can make for a tone of n
\* samples: 0 first, then sums of a sine and its harmonic
CombinedValues == {Dec(115, 100), Dec(-3, 10)}
CombinedLists(n) ==
    IF n < 2 THEN {<<>>}
    ELSE {<<FZero>> \o tail : tail \in [1..(n - 1) -> CombinedValues]}

\* Siren(name, total_duration, night_mode, traffic_density, distance) with
\* the values of self.samples: the signal of SirenInit, its tones being
\* the oscillator's output for two of the lists that line 31 can make
SirenSampled(name, total_duration, night_mode, traffic_density, distance) ==
    \E new \in {SirenInit(name, total_duration, night_mode, traffic_density, distance)} :
        /\ \/ /\ new.raised # "None"
              /\ \E st \in {Collect(PRESETS, new.heap, caller, siren)} : Store(st)
           \/ /\ new.raised = "None"
              /\ \E n \in {FTrunc(FMul(FInt(sample_rate), new.self.tone_duration.v))} :
                 \E low_combined \in CombinedLists(n), high_combined \in CombinedLists(n) :
                 \E low \in {sine_wave_samples(low_combined, new.self.attack.v,
                                                new.self.decay.v, sample_rate)},
                    high \in {sine_wave_samples(high_combined, new.self.attack.v,
                                                 new.self.decay.v, sample_rate)} :
                 \E samples \in {siren_signal_samples(new.self.samples, low.value,
                                                      high.value,
                                                      new.heap[new.self.p].volume.v)} :
                 \E st \in {Collect(PRESETS, new.heap, caller,
                                     [new.self EXCEPT !.samples = samples])} :
                     Store(st)
        /\ result' = [call |-> "Siren", name |-> name, raised |-> new.raised,
                      value |-> None]
        /\ UNCHANGED <<request, wf, disk, loop>>

-----------------------------------------------------------------------------
(* sirens/playback/__init__.py, with wave and struct of the standard      *)
(* library.  A file is its handle (open or not), the header fields once   *)
(* the header is written, and the bytes of its data chunk.                *)

\* int(s * 32767) rounding to the nearest integer, halves up
Quantize_rounded(s) == FFloor(FAdd(FMul(s, FInt(32767)), Dec(1, 2)))

\* int(s * 32767) of line 27
Quantize(s) == FTrunc(FMul(s, FInt(32767)))

\* struct.pack("h", v) accepts v, and the two bytes it gives (the low one
\* first, as the machines that run the program order them)
InShort(v) == v >= -32768 /\ v <= 32767
pack_h(v) == <<v % 256, (v % 65536) \div 256>>

\* wave.open(filename, "w"): a new and empty file, open
NewFile == [open |-> TRUE, header |-> None, data |-> <<>>]

\* the header of a mono 16-bit file of so many data bytes
Header(rate, datalength) ==
    [nchannels |-> 1, sampwidth |-> 2, framerate |-> rate, datalength |-> datalength]

\* Wave_write.writeframes: the header is written before the first frames,
\* the frames are written, and the length in the header is patched to
\* the bytes written so far
writeframes(f, rate, data) ==
    [f EXCEPT !.header = Header(rate, Len(f.data) + Len(data)),
              !.data = f.data \o data]

\* Wave_write.close that closes the file and writes nothing
wave_close_without_header(f, rate) == [f EXCEPT !.open = FALSE]

\* Wave_write.close: the header is written if it was not, patched if its
\* length is not that of the data, and the file is closed
wave_close(f, rate) ==
    [f EXCEPT !.header = Header(rate, Len(f.data)), !.open = FALSE]

\* leaving the with block closing the file only when no exception is
\* on its way
with_exit_on_return_only(f, rate, raised) ==
    IF raised = "None" THEN wave_close(f, rate) ELSE f

\* leaving the with block of line 20: Wave_write.__exit__ closes the file
\* whether an exception is on its way or not
with_exit(f, rate, raised) == wave_close(f, rate)

\* write_wav(samples, filename, rate) up to line 23: the file is opened
\* and the parameters are set.  wave accepts a frame rate > 0 only; with
\* another one setframerate raises wave.Error, and the close of the with
\* block, finding no frame rate to write a header with, raises it again
\* after closing the empty file.  Opening the file can fail.
write_wav(samples, filename, rate) ==
    /\ wf = None
    /\ \/ /\ rate > 0
          /\ wf' = [samples |-> samples, filename |-> filename, sample_rate |-> rate,
                    at |-> 1]
          /\ disk' = DictSet(disk, filename, NewFile)
          /\ UNCHANGED result
       \/ /\ rate <= 0
          /\ disk' = DictSet(disk, filename, [NewFile EXCEPT !.open = FALSE])
          /\ result' = [call |-> "write_wav", name |-> filename,
                        raised |-> "wave.Error", value |-> None]
          /\ UNCHANGED wf
       \/ /\ result' = [call |-> "write_wav", name |-> filename,
                        raised |-> "OSError", value |-> None]
          /\ UNCHANGED <<wf, disk>>
    /\ UNCHANGED <<PRESETS, heap, caller, request, siren, loop>>

\* one turn of the loop of lines 26-27: the sample is quantized, packed
\* and written
write_wav_frame ==
    /\ wf # None
    /\ wf.at <= Len(wf.samples)
    /\ \E v \in {Quantize(wf.samples[wf.at])} :
           /\ InShort(v)
           /\ disk' = [disk EXCEPT ![wf.filename] =
                           writeframes(@, wf.sample_rate, pack_h(v))]
    /\ wf' = [wf EXCEPT !.at = @ + 1]
    /\ UNCHANGED <<PRESETS, heap, caller, request, siren, result, loop>>

\* one turn of the loop that fails: struct.error for a value that is no
\* signed 16-bit integer, or OSError from the write; the with block is
\* left with the exception
write_wav_raises ==
    /\ wf # None
    /\ wf.at <= Len(wf.samples)
    /\ \E raised \in {"struct.error", "OSError"} :
           /\ raised = "struct.error" => ~InShort(Quantize(wf.samples[wf.at]))
           /\ raised = "OSError" => InShort(Quantize(wf.samples[wf.at]))
           /\ disk' = [disk EXCEPT ![wf.filename] =
                           with_exit(@, wf.sample_rate, raised)]
           /\ result' = [call |-> "write_wav", name |-> wf.filename,
                         raised |-> raised, value |-> None]
    /\ wf' = None
    /\ UNCHANGED <<PRESETS, heap, caller, request, siren, loop>>

\* the loop is over: the with block is left and line 29 returns filename
write_wav_returns ==
    /\ wf # None
    /\ wf.at > Len(wf.samples)
    /\ disk' = [disk EXCEPT ![wf.filename] = with_exit(@, wf.sample_rate, "None")]
    /\ result' = [call |-> "write_wav", name |-> wf.filename, raised |-> "None",
                  value |-> Str(wf.filename)]
    /\ wf' = None
    /\ UNCHANGED <<PRESETS, heap, caller, request, siren, loop>>

\* siren.write(filename) of core.py, up to the point write_wav has
\* reached; None stands for no filename, and the name made of the time
\* of day is kept as one name
Siren_write(filename) ==
    /\ siren # None
    /\ write_wav(siren.samples,
                 IF filename = None THEN "siren_timestamp.wav" ELSE filename.v,
                 siren.sample_rate)

-----------------------------------------------------------------------------
(* The calling code: the presets it builds and the arguments it passes.   *)

\* tests/test_basic.py: valid_preset, custom_preset and invalid_preset
valid_preset ==
    [freqs |-> Tup(<<PyInt(400), PyInt(500)>>),
     tone_duration |-> PyFloat(5, 10),
     attack |-> PyFloat(5, 100),
     decay |-> PyFloat(5, 100),
     volume |-> PyFloat(9, 10),
     max_db |-> PyInt(110)]

custom_preset ==
    [freqs |-> Tup(<<PyInt(500), PyInt(600)>>),
     tone_duration |-> PyFloat(4, 10),
     attack |-> PyFloat(5, 100),
     decay |-> PyFloat(5, 100),
     volume |-> PyFloat(85, 100),
     max_db |-> PyInt(112)]

invalid_preset == [freqs |-> Tup(<<PyInt(400), PyInt(500)>>)]

described_preset == DictSet(custom_preset, "description", Str("My siren"))

\* presets at the edges of the ranges
edge_preset ==
    [freqs |-> Tup(<<PyInt(1), PyFloat(5, 10)>>),
     tone_duration |-> PyInt(1),
     attack |-> PyInt(0),
     decay |-> PyInt(0),
     volume |-> PyInt(1),
     max_db |-> PyInt(0)]

ValidPresets ==
    {valid_preset, custom_preset, described_preset, edge_preset,
     DictSet(valid_preset, "volume", PyInt(0)),
     DictSet(valid_preset, "tone_duration", PyInt(0))}

InvalidPresets ==
    {invalid_preset,
     DictDel(valid_preset, "decay"),
     DictDel(described_preset, "max_db"),
     DictSet(valid_preset, "volume", PyFloat(15, 10)),
     DictSet(valid_preset, "volume", PyFloat(-1, 10)),
     DictSet(valid_preset, "volume", Str("loud")),
     DictSet(valid_preset, "freqs", Tup(<<PyInt(0), PyInt(500)>>)),
     DictSet(valid_preset, "freqs", Tup(<<PyInt(400), PyInt(-500)>>)),
     DictSet(valid_preset, "freqs", Tup(<<PyInt(400), Str("500")>>)),
     DictSet(valid_preset, "freqs", Tup(<<PyInt(400), PyInt(500), PyInt(600)>>)),
     DictSet(valid_preset, "freqs", PyInt(400)),
     DictSet(valid_preset, "tone_duration", PyFloat(-5, 10)),
     DictSet(valid_preset, "attack", PyFloat(-5, 100)),
     DictSet(valid_preset, "decay", PyFloat(-5, 100)),
     DictSet(valid_preset, "max_db", PyInt(-1))}

CandidatePresets == ValidPresets \cup InvalidPresets

\* the names the calling code registers under and asks for
RegNames == {"police", "custom"}
SirenNames == {"police", "custom", "typo"}

-----------------------------------------------------------------------------
(* The program: registrations and constructions in any order.             *)

Init ==
    /\ PRESETS = [n \in {BuiltinNames[i] : i \in 1..4} |->
                    CHOOSE i \in 1..4 : BuiltinNames[i] = n]
    /\ heap = [i \in 1..4 |-> InitialPresets[BuiltinNames[i]]]
    /\ caller = NoRef
    /\ request = None
    /\ siren = None
    /\ result = [call |-> "", name |-> "", raised |-> "None", value |-> None]
    /\ wf = None
    /\ disk = <<>>
    /\ loop = None

NextRegistry ==
    \/ \E d \in CandidatePresets : NewPreset(d)
    \/ \E name \in RegNames : register_custom_siren(name)
    \/ get_available_sirens

SpecRegistry == Init /\ [][NextRegistry]_vars

Next ==
    \/ \E d \in {custom_preset, described_preset} : NewPreset(d)
    \/ \E name \in RegNames : register_custom_siren(name)
    \/ \E name \in SirenNames, night_mode \in BOOLEAN :
           Siren(name, FInt(1), night_mode, "medium", FInt(20))

Spec == Init /\ [][Next]_vars

-----------------------------------------------------------------------------
(* One synthesis: a registry holding the built-in presets and one custom  *)
(* preset, and one request, as sirens/cli.py and the examples make it.    *)

MaxDuration == 3

Durations == {FInt(k) : k \in 0..MaxDuration} \cup {Dec(-1, 2)}
Distances == {FZero, Dec(1, 2), FInt(5), FInt(10), FInt(20), FInt(100)}
TrafficDensities == {"heavy", "medium", "light"}

\* a silent preset whose level is a tie between two one-digit decimals
quiet_preset ==
    DictSet(DictSet(valid_preset, "volume", PyInt(0)), "max_db", PyFloat(9025, 100))

\* a tone whose length in samples, 5441.94, is no whole number
short_preset ==
    [freqs |-> Tup(<<PyInt(800), PyInt(1000)>>),
     tone_duration |-> PyFloat(1234, 10000),
     attack |-> PyFloat(1, 100),
     decay |-> PyFloat(1, 100),
     volume |-> PyInt(1),
     max_db |-> PyInt(120)]

zero_preset == DictSet(valid_preset, "tone_duration", PyInt(0))

\* a tone of 1.323 sample periods
tiny_preset == DictSet(valid_preset, "tone_duration", PyFloat(3, 100000))

SynthPresets == {quiet_preset, short_preset, zero_preset, tiny_preset}

Requests(names) ==
    [name : names, total_duration : Durations, night_mode : BOOLEAN,
     traffic_density : TrafficDensities, distance : Distances]

\* the program's references and objects once the caller has built the
\* dict d and registered it as "custom" in the initial registry
CustomRegistered(d) ==
    LET presets == [n \in {BuiltinNames[i] : i \in 1..4} |->
                      CHOOSE i \in 1..4 : BuiltinNames[i] = n]
        h == [i \in 1..5 |-> IF i = 5 THEN d ELSE InitialPresets[BuiltinNames[i]]]
        reg == Registered(presets, h, "custom", 5)
    IN  Collect(reg.PRESETS, reg.heap, 5, None)

InitSynth ==
    \E d \in SynthPresets :
        /\ validate_siren_preset(d).is_valid
        /\ \E st \in {CustomRegistered(d)} :
               /\ PRESETS = st.PRESETS
               /\ heap = st.heap
               /\ caller = st.caller
               /\ siren = st.siren
        /\ result = [call |-> "register_custom_siren", name |-> "custom",
                     raised |-> "None", value |-> None]
        /\ wf = None
        /\ disk = <<>>
        /\ loop = None
        /\ request \in Requests(IF d = quiet_preset
                                THEN {"police", "firefighter", "samu", "hi_lo",
                                      "custom", "typo"}
                                ELSE {"custom"})

SirenRequested ==
    /\ request # None
    /\ Siren(request.name, request.total_duration, request.night_mode,
             request.traffic_density, request.distance)

NextSynth ==
    \/ SirenRequested
    \/ get_info

SpecSynth == InitSynth /\ [][NextSynth]_vars

-----------------------------------------------------------------------------
(* Properties of the registry (SpecRegistry).                             *)

\* the SirenPreset data model: the six required fields, both frequencies
\* > 0, tone_duration > 0, attack, decay and max_db >= 0, volume in [0, 1]
DataModel(d) ==
    /\ {"freqs", "tone_duration", "attack", "decay", "volume", "max_db"} \subseteq DOMAIN d
    /\ d.freqs.t = "tuple"
    /\ Len(d.freqs.v) = 2
    /\ \A i \in 1..2 : d.freqs.v[i].t = "num" /\ FCmp(d.freqs.v[i].v, FZero) > 0
    /\ \A f \in {"tone_duration", "attack", "decay", "volume", "max_db"} : d[f].t = "num"
    /\ FCmp(d.tone_duration.v, FZero) > 0
    /\ \A f \in {"attack", "decay", "max_db", "volume"} : FCmp(d[f].v, FZero) >= 0
    /\ FCmp(d.volume.v, FInt(1)) <= 0

\* the defects of a preset that the registration API names
MissingRequired(d) ==
    \E f \in {"freqs", "tone_duration", "attack", "decay", "volume", "max_db"} :
        f \notin DOMAIN d

NonPositiveFrequency(d) ==
    /\ "freqs" \in DOMAIN d
    /\ d.freqs.t = "tuple"
    /\ \E i \in DOMAIN d.freqs.v :
           d.freqs.v[i].t = "num" /\ FCmp(d.freqs.v[i].v, FZero) <= 0

NegativeField(d) ==
    \E f \in {"attack", "decay", "tone_duration", "max_db"} :
        f \in DOMAIN d /\ d[f].t = "num" /\ FCmp(d[f].v, FZero) < 0

VolumeOutside(d) ==
    /\ "volume" \in DOMAIN d
    /\ d.volume.t = "num"
    /\ (FCmp(d.volume.v, FZero) < 0 \/ FCmp(d.volume.v, FInt(1)) > 0)

\* C1: a call of register_custom_siren with a preset that
\* validate_siren_preset rejects raises ValueError and leaves the registry
\* as it was: no name is added, no entry is changed or removed (and a
\* call with a preset it accepts raises nothing).
C1_RejectedRegistrationKeepsRegistry ==
    [][result'.call = "register_custom_siren"
         => IF validate_siren_preset(heap[caller]).is_valid
            THEN result'.raised = "None"
            ELSE /\ result'.raised = "ValueError"
                 /\ PRESETS' = PRESETS
                 /\ Registry' = Registry]_vars

\* a rejected registration under a name that a custom siren already has
C1_Witness ==
    /\ result.call = "register_custom_siren"
    /\ result.name = "custom"
    /\ result.raised = "ValueError"
    /\ "custom" \in DOMAIN PRESETS
    /\ Registry["custom"] # heap[caller]
    /\ DOMAIN Registry = {"police", "firefighter", "samu", "hi_lo", "custom"}

\* C2: in every state reached by registrations, successful or failed,
\* every entry of PRESETS satisfies the SirenPreset data model, its
\* tone_duration > 0 included.
C2_RegistryEntriesSatisfyDataModel ==
    \A n \in DOMAIN PRESETS : DataModel(Registry[n])

\* C3: validate_siren_preset, and with it registration, rejects every
\* preset that misses a required field, has a non-positive frequency, a
\* negative attack, decay, tone_duration or max_db, or a volume outside
\* [0, 1]; it accepts every preset whose six required fields are present
\* and in range, with or without a description.
C3_ValidationRejectsAndAccepts ==
    (result.call = "register_custom_siren") =>
        LET d == heap[caller]
            defective == \/ MissingRequired(d)
                         \/ NonPositiveFrequency(d)
                         \/ NegativeField(d)
                         \/ VolumeOutside(d)
        IN  /\ defective => /\ ~validate_siren_preset(d).is_valid
                            /\ result.raised = "ValueError"
            /\ DataModel(d) => /\ validate_siren_preset(d).is_valid
                               /\ result.raised = "None"
                               /\ result.name \in DOMAIN PRESETS

\* the registration of a preset of volume 1.5 has been rejected
C3_Witness ==
    /\ result.call = "register_custom_siren"
    /\ result.raised = "ValueError"
    /\ heap[caller] = DictSet(valid_preset, "volume", PyFloat(15, 10))

-----------------------------------------------------------------------------
(* Properties of the construction of a Siren among registrations (Spec).  *)

\* x * 2^k for a double x, without underflow or overflow
Scale2(x, k) == IF FIsZero(x) THEN x ELSE [x EXCEPT !.e = @ + k]

\* the registry entry a request for name is served from
EntryFor(name) ==
    IF name \in DOMAIN PRESETS THEN Registry[name] ELSE Registry["police"]

\* C4: a Siren takes its frequencies, tone duration, attack, decay, volume
\* and max_db from the registry entry stored under its name when the name
\* is registered, a custom one included, and from the entry stored under
\* "police", without an error, when it is not.  (The volume is the
\* entry's, halved by night mode and quartered by the distance of 20 m.)
C4_SirenTakesRegisteredEntry ==
    (result.call = "Siren") =>
        LET entry == EntryFor(request.name)
        IN  /\ result.raised = "None"
            /\ siren.freq1 = entry.freqs.v[1]
            /\ siren.freq2 = entry.freqs.v[2]
            /\ heap[siren.p].freqs = entry.freqs
            /\ siren.tone_duration = entry.tone_duration
            /\ siren.attack = entry.attack
            /\ siren.decay = entry.decay
            /\ heap[siren.p].max_db = entry.max_db
            /\ heap[siren.p].volume.v
                 = Scale2(entry.volume.v, IF request.night_mode THEN -3 ELSE -2)

\* an unregistered name served from "police" while a custom siren with
\* other frequencies is registered
C4_Witness ==
    /\ result.call = "Siren"
    /\ result.raised = "None"
    /\ request.name = "typo"
    /\ "custom" \in DOMAIN PRESETS
    /\ siren.freq1 = Registry["police"].freqs.v[1]
    /\ siren.freq1 # Registry["custom"].freqs.v[1]

\* C5: constructing a Siren leaves every registry entry unchanged, the
\* volume scaling being applied to a copy, and two successive Sirens
\* built with the same arguments get the same effective volume.
C5_ConstructionKeepsRegistry ==
    [][result'.call = "Siren"
         => /\ PRESETS' = PRESETS
            /\ Registry' = Registry
            /\ (caller # NoRef => heap'[caller'] = heap[caller])
            /\ (result.call = "Siren" /\ result.raised = "None"
                  /\ result'.raised = "None" /\ request' = request
                  => heap'[siren'.p].volume = heap[siren.p].volume)]_vars

\* a night-mode Siren of a registered custom siren: its own volume is
\* scaled, the registry's is not
C5_Witness ==
    /\ result.call = "Siren"
    /\ result.raised = "None"
    /\ request.name = "custom"
    /\ request.night_mode
    /\ "custom" \in DOMAIN PRESETS
    /\ PRESETS["custom"] = caller
    /\ heap[siren.p].volume # Registry["custom"].volume
    /\ Registry["custom"].volume = described_preset.volume

-----------------------------------------------------------------------------
(* Properties of one synthesis (SpecSynth).                               *)

\* round() of a double >= 0 to an integer: to the nearest, ties to even
FRoundInt(a) ==
    LET below == FFloor(a)
        tie == FCmp(FSub(a, FInt(below)), Dec(1, 2))
    IN  IF tie > 0 \/ (tie = 0 /\ below % 2 = 1) THEN below + 1 ELSE below

\* a request as the data model has it: total_duration > 0, distance > 0
ValidRequest ==
    /\ FCmp(request.total_duration, FZero) > 0
    /\ FCmp(request.distance, FZero) > 0

\* the number of gaps between the bursts of a signal of so many cycles
Gaps(cycles, burst_size) ==
    IF cycles <= 0 THEN 0 ELSE ((cycles + burst_size - 1) \div burst_size) - 1

\* the duty cycle of a traffic density
DutyCycle(traffic_density) ==
    CASE traffic_density = "heavy" -> Dec(9, 10)
      [] traffic_density = "medium" -> Dec(8, 10)
      [] traffic_density = "light" -> Dec(6, 10)

\* tone_duration x sample_rate, and the length of a gap
ToneSamples == FMul(siren.tone_duration.v, FInt(44100))
GapSamples ==
    LET duty == DutyCycle(request.traffic_density)
    IN  FTrunc(FMul(FDiv(FMul(FMul(siren.tone_duration.v, FInt(2)),
                              FSub(FInt(1), duty)), duty), FInt(44100)))

\* C6 as stated: for valid presets and requests the buffer is, within one
\* sample, 2 x cycle_count tone segments of round(tone_duration x
\* sample_rate) samples plus one gap of trunc(tone_duration x 2 x (1 -
\* duty_cycle) / duty_cycle x sample_rate) samples between consecutive
\* bursts.
C6_LengthWithRoundedSegments ==
    (siren # None /\ ValidRequest) =>
        LET claimed == 2 * siren.cycles * FRoundInt(ToneSamples)
                       + Gaps(siren.cycles, siren.burst_size) * GapSamples
            len == SignalLen(siren.samples)
        IN  len - claimed <= 1 /\ claimed - len <= 1

\* C6 amended: the buffer is exactly 2 x cycle_count tone segments of
\* trunc(tone_duration x sample_rate) samples, the product truncated and
\* not rounded, plus one gap of trunc(...) samples between consecutive
\* bursts; a segment is at most one sample shorter than the rounded
\* length.
C6_LengthWithTruncatedSegments ==
    (siren # None /\ ValidRequest) =>
        /\ SignalLen(siren.samples)
             = 2 * siren.cycles * FTrunc(ToneSamples)
               + Gaps(siren.cycles, siren.burst_size) * GapSamples
        /\ FRoundInt(ToneSamples) - FTrunc(ToneSamples) \in {0, 1}
        /\ Len(siren.samples)
             = 2 * siren.cycles + Gaps(siren.cycles, siren.burst_size)

\* a signal with gaps whose tone segments are shorter than the rounded
\* length
C6_Witness ==
    /\ siren # None
    /\ ValidRequest
    /\ Gaps(siren.cycles, siren.burst_size) >= 2
    /\ FRoundInt(ToneSamples) = FTrunc(ToneSamples) + 1
    /\ SignalLen(siren.samples) > 0

\* total_duration / (2 x tone_duration) x duty_cycle, in doubles
CycleQuotient ==
    FMul(FDiv(request.total_duration, FMul(FInt(2), siren.tone_duration.v)),
         DutyCycle(request.traffic_density))

\* C7 as stated: the cycle count is floor(total_duration / (2 x
\* tone_duration) x duty_cycle) with a duty cycle of 0.9, 0.8 and 0.6 for
\* heavy, medium and light traffic; police, 3 s, medium gives 3.
C7_CyclesAreFloor ==
    (siren # None) =>
        /\ siren.cycles = FFloor(CycleQuotient)
        /\ (request.name = "police" /\ request.total_duration = FInt(3)
              /\ request.traffic_density = "medium" => siren.cycles = 3)

\* C7 amended: the cycle count is the quotient truncated toward zero: its
\* floor when total_duration >= 0 and its ceiling when total_duration < 0;
\* police, 3 s, medium gives 3.
C7_CyclesAreTruncated ==
    (siren # None) =>
        /\ siren.cycles = (IF FCmp(request.total_duration, FZero) >= 0
                           THEN FFloor(CycleQuotient)
                           ELSE -FFloor(FNeg(CycleQuotient)))
        /\ siren.duty_cycle = DutyCycle(request.traffic_density)
        /\ (request.name = "police" /\ request.total_duration = FInt(3)
              /\ request.traffic_density = "medium" => siren.cycles = 3)

\* the police siren of 3 s in medium traffic has 3 cycles
C7_Witness ==
    /\ siren # None
    /\ request.name = "police"
    /\ request.total_duration = FInt(3)
    /\ request.traffic_density = "medium"
    /\ siren.tone_duration = PyFloat(4, 10)
    /\ siren.cycles = 3

\* the volume of the preset, after night mode, and of the Siren
PresetVolume == EntryFor(request.name).volume.v
PostNightVolume ==
    IF request.night_mode THEN FMul(PresetVolume, Dec(5, 10)) ELSE PresetVolume
EffectiveVolume == heap[siren.p].volume.v

\* min(1, (10 / max(1, distance))^2)
DistanceFactor ==
    LET far == IF FCmp(request.distance, FInt(1)) > 0 THEN request.distance ELSE FInt(1)
        ratio == FDiv(FInt(10), far)
        square == FMul(ratio, ratio)
    IN  IF FCmp(square, FInt(1)) < 0 THEN square ELSE FInt(1)

\* what C8 says of every Siren, whatever its volume
VolumeScaling ==
    /\ EffectiveVolume = FMul(PostNightVolume, DistanceFactor)
    /\ FCmp(EffectiveVolume, PresetVolume) <= 0
    /\ (FCmp(request.distance, FInt(10)) <= 0 => EffectiveVolume = PostNightVolume)
    /\ (request.night_mode
          => EffectiveVolume = Scale2(FMul(PresetVolume, DistanceFactor), -1))

\* C8 as stated: the effective volume is preset.volume, times 0.5 in night
\* mode, times min(1, (10 / max(1, distance))^2); it never exceeds the
\* preset volume, a distance <= 10 leaves the post-night-mode volume
\* unchanged, a distance > 10 strictly attenuates it, and the night-mode
\* volume is exactly half the day-mode volume.
C8_VolumeStrictlyAttenuated ==
    (siren # None) =>
        /\ VolumeScaling
        /\ (FCmp(request.distance, FInt(10)) > 0
              => FCmp(EffectiveVolume, PostNightVolume) < 0)

\* C8 amended: as stated, but a distance > 10 strictly attenuates the
\* post-night-mode volume only when that volume is positive; a volume of
\* 0 stays 0.
C8_VolumeAttenuatedWhenPositive ==
    (siren # None) =>
        /\ VolumeScaling
        /\ (FCmp(request.distance, FInt(10)) > 0
              => IF FIsZero(PostNightVolume)
                 THEN FIsZero(EffectiveVolume)
                 ELSE FCmp(EffectiveVolume, PostNightVolume) < 0)

\* a night-mode Siren at 20 m: an eighth of a positive preset volume
C8_Witness ==
    /\ siren # None
    /\ request.night_mode
    /\ request.distance = FInt(20)
    /\ ~FIsZero(PresetVolume)
    /\ EffectiveVolume = Scale2(PresetVolume, -3)

\* min(x, 90) in night mode, x otherwise
NightClamp(x, night_mode) ==
    IF night_mode /\ FCmp(x, FInt(90)) > 0 THEN FInt(90) ELSE x

C10_NightLevelAtMost90 ==
    (result.call = "get_info" /\ siren.night_mode) =>
        /\ FCmp(result.value.estimated_db.v, FInt(90)) <= 0
        /\ FCmp(estimate_db(heap[siren.p].max_db.v, siren.distance, TRUE),
                FInt(90)) <= 0

-----------------------------------------------------------------------------
(* The envelope shaper called on its own, on short buffers at a low       *)
(* sample rate, so that a window of a fraction of a sample, of one        *)
(* sample, of several samples and of more than the buffer all occur.      *)

MaxLen == 3
EnvelopeRate == 4

SampleValues == {One, Dec(-1, 2)}
Buffers == UNION {[1..n -> SampleValues] : n \in 0..MaxLen}

\* times of 0, 0.4, 1, 2, 4 and 6 samples at EnvelopeRate
Times == {FZero, Dec(1, 10), Dec(1, 4), Dec(1, 2), One, Dec(3, 2)}

\* envelope(samples, attack, decay, sample_rate)
Envelope(samples, attack, decay, rate) ==
    /\ request' = [samples |-> samples, attack |-> attack, decay |-> decay,
                   sample_rate |-> rate]
    /\ \E out \in {envelope_samples(samples, attack, decay, rate)} :
           result' = [call |-> "envelope", name |-> "", raised |-> out.raised,
                      value |-> out.value]
    /\ UNCHANGED <<PRESETS, heap, caller, siren, wf, disk, loop>>

\* the calling code holds a buffer and the two times
InitEnvelope ==
    /\ Init!1 /\ Init!2 /\ Init!3 /\ Init!5 /\ Init!6 /\ Init!7 /\ Init!8 /\ Init!9
    /\ request \in [samples : Buffers, attack : Times, decay : Times,
                     sample_rate : {EnvelopeRate}]

EnvelopeRequested ==
    Envelope(request.samples, request.attack, request.decay, request.sample_rate)

NextEnvelope == EnvelopeRequested

SpecEnvelope == InitEnvelope /\ [][NextEnvelope]_vars

-----------------------------------------------------------------------------
(* Properties of the envelope shaper (SpecEnvelope).                      *)

\* C11: for every buffer of N samples and every attack and decay time
\* >= 0, windows longer than the buffer and overlapping windows included,
\* envelope returns a buffer of exactly N samples and does not fail.
C11_EnvelopeReturnsSameLength ==
    (result.call = "envelope") =>
        /\ result.raised = "None"
        /\ Len(result.value) = Len(request.samples)

\* the buffer is N >= 1 samples, all 1.0
AllOnes(samples) == Len(samples) >= 1 /\ \A i \in DOMAIN samples : samples[i] = One

\* C12: for an input of N ones, the first sample of the output is 0.0
\* whenever the attack time is > 0, and the last one is 0.0 whenever the
\* decay time is > 0 and decay x sample_rate < N, times shorter than one
\* sample period included.
C12_RampsStartAndEndAtZero ==
    (result.call = "envelope" /\ result.raised = "None" /\ AllOnes(request.samples)) =>
        /\ FCmp(request.attack, FZero) > 0 => FIsZero(result.value[1])
        /\ (FCmp(request.decay, FZero) > 0
             /\ FCmp(FMul(request.decay, FInt(request.sample_rate)),
                     FInt(Len(request.samples))) < 0)
              => FIsZero(result.value[Len(request.samples)])

\* the number of whole samples in a window of t seconds
WindowSamples(t) == FTrunc(FMul(t, FInt(request.sample_rate)))

\* C13: a zero attack time or a zero decay time makes that ramp a no-op
\* (the samples on that side, outside the other ramp, are multiplied by
\* 1.0), and with both times zero envelope returns a buffer equal to its
\* input sample for sample, the empty buffer included.
C13_ZeroTimesAreIdentity ==
    (result.call = "envelope") =>
        /\ (FIsZero(request.attack) /\ FIsZero(request.decay))
              => result.raised = "None" /\ result.value = request.samples
        /\ FIsZero(request.attack)
              => /\ result.raised = "None"
                 /\ \A i \in DOMAIN request.samples :
                        (WindowSamples(request.decay) >= Len(request.samples)
                         \/ i <= Len(request.samples) - WindowSamples(request.decay))
                          => result.value[i] = request.samples[i]
        /\ (FIsZero(request.decay) /\ result.raised = "None")
              => \A i \in DOMAIN request.samples :
                     i > WindowSamples(request.attack)
                       => result.value[i] = request.samples[i]

\* a buffer of values other than 1.0 came back unchanged from a call with
\* both times zero
C13_Witness ==
    /\ result.call = "envelope"
    /\ FIsZero(request.attack) /\ FIsZero(request.decay)
    /\ Len(request.samples) = MaxLen
    /\ request.samples[1] = Dec(-1, 2)
    /\ result.value = request.samples

-----------------------------------------------------------------------------
(* Properties of the oscillator and of degenerate tones (SpecSynth).      *)

\* C14 as stated: a tone segment of generate_sine_wave has exactly
\* round(duration x sample_rate) samples.
C14_ToneSegmentRounded ==
    (siren # None) =>
        \A i \in DOMAIN siren.samples :
            siren.samples[i].kind = "tone"
              => siren.samples[i].n = FRoundInt(ToneSamples)

\* C14 amended: a tone segment that generate_sine_wave returns has
\* exactly trunc(sample_rate x duration) samples, the product truncated
\* toward zero and not rounded: at least 2, and at most one fewer than
\* the rounded length.
C14_ToneSegmentTruncated ==
    (siren # None) =>
        \A i \in DOMAIN siren.samples :
            siren.samples[i].kind = "tone"
              => /\ siren.samples[i].n = FTrunc(FMul(FInt(44100), siren.tone_duration.v))
                 /\ siren.samples[i].n >= 2
                 /\ FRoundInt(ToneSamples) - siren.samples[i].n \in {0, 1}

\* a tone segment of the custom siren that is one sample shorter than the
\* rounded length
C14_Witness ==
    /\ siren # None
    /\ request.name = "custom"
    /\ Len(siren.samples) >= 2
    /\ siren.samples[2].kind = "tone"
    /\ siren.samples[2].n + 1 = FRoundInt(ToneSamples)

\* the tone of the preset asked for is degenerate: fewer than two samples,
\* so none at all or the single sample sin(0) = 0
DegenerateTone ==
    FTrunc(FMul(FInt(44100), EntryFor(request.name).tone_duration.v)) <= 1

\* C15: a degenerate tone segment is guarded: when the tone is of zero
\* length or all zero (a tone_duration of 0, or of less than a sample
\* period), the synthesis treats it as a silent segment and completes; it
\* does not fail with a division by zero or an empty-sequence error.
C15_DegenerateToneIsSilent ==
    (result.call = "Siren" /\ DegenerateTone) => result.raised = "None"

-----------------------------------------------------------------------------
(* Writing a file: one script builds a Siren of a few samples and writes  *)
(* it as sirens/cli.py does; another passes a buffer of its own to        *)
(* write_wav; a third calls the oscillator.                               *)

MaxFrames == 3

\* a tone of 3 samples, with an attack of 2 samples and a decay of 1
brief_preset ==
    [freqs |-> Tup(<<PyInt(400), PyInt(500)>>),
     tone_duration |-> PyFloat(7, 100000),
     attack |-> PyFloat(5, 100000),
     decay |-> PyFloat(3, 100000),
     volume |-> PyInt(1),
     max_db |-> PyInt(110)]

\* durations of no cycle, of one cycle and of three or four cycles
WavRequests ==
    [name : {"custom"}, total_duration : {FZero, Dec(3, 10000), Dec(7, 10000)},
     night_mode : BOOLEAN, traffic_density : TrafficDensities,
     distance : {FInt(5), FInt(20)}]

\* samples in the range, at its edge, halfway between two integers when
\* scaled, and out of the range
WavValues == {Dec(1, 2), Dec(-1, 2), One, Dec(3, 2)}
WavBuffers == UNION {[1..n -> WavValues] : n \in 0..MaxFrames}
Rates == {0, 8000, 44100}
BufferRequests == [samples : WavBuffers, filename : {"out.wav"}, sample_rate : Rates]

OscillatorRequests ==
    [combined : CombinedLists(2) \cup CombinedLists(3) \cup {<<>>, <<FZero>>},
     attack : {FZero, Dec(5, 100000)}, decay : {FZero, Dec(3, 100000)}]

InitWav ==
    /\ \E st \in {CustomRegistered(brief_preset)} :
           /\ PRESETS = st.PRESETS
           /\ heap = st.heap
           /\ caller = st.caller
           /\ siren = st.siren
    /\ result = [call |-> "register_custom_siren", name |-> "custom",
                 raised |-> "None", value |-> None]
    /\ wf = None
    /\ disk = <<>>
    /\ loop = None
    /\ request \in WavRequests \cup BufferRequests \cup OscillatorRequests

\* siren = Siren(...), once
SirenSampledRequested ==
    /\ "name" \in DOMAIN request
    /\ siren = None
    /\ wf = None
    /\ SirenSampled(request.name, request.total_duration, request.night_mode,
                    request.traffic_density, request.distance)

\* siren.write(filename), once
SirenWriteRequested ==
    /\ result.call # "write_wav"
    /\ \E filename \in {None, Str("_tmp_siren.wav")} : Siren_write(filename)

\* write_wav(samples, filename, sample_rate), once
WavRequested ==
    /\ "samples" \in DOMAIN request
    /\ result.call # "write_wav"
    /\ write_wav(request.samples, request.filename, request.sample_rate)

\* generate_sine_wave(freq, duration, sample_rate, attack, decay), from
\* line 34 on
OscillatorRequested ==
    /\ "combined" \in DOMAIN request
    /\ \E out \in {sine_wave_samples(request.combined, request.attack,
                                      request.decay, sample_rate)} :
           result' = [call |-> "generate_sine_wave", name |-> "",
                      raised |-> out.raised, value |-> out.value]
    /\ UNCHANGED <<PRESETS, heap, caller, request, siren, wf, disk, loop>>

NextWav ==
    \/ SirenSampledRequested
    \/ SirenWriteRequested
    \/ WavRequested
    \/ OscillatorRequested
    \/ write_wav_frame
    \/ write_wav_raises
    \/ write_wav_returns

SpecWav == InitWav /\ [][NextWav]_vars

-----------------------------------------------------------------------------
(* Properties of the samples and of the file written (SpecWav).           *)

\* |x| <= y
Within(x, y) == FCmp(FAbs(x), y) <= 0

\* the buffer the script passes to write_wav, and the rate
WrittenSamples == IF "samples" \in DOMAIN request THEN request.samples ELSE siren.samples
WrittenRate == IF "samples" \in DOMAIN request THEN request.sample_rate ELSE siren.sample_rate

\* write_wav has returned, and the file it wrote
Returned == result.call = "write_wav" /\ result.raised = "None"
Written == disk[result.name]

\* C16: every sample the oscillator returns is in [-1, 1]; so every
\* sample of a Siren built from a registry preset with a volume in [0, 1]
\* is at most the effective volume in magnitude, which is at most 1; its
\* value scaled by 32767 is in the signed 16-bit range, and writing such a
\* Siren never fails for a sample out of range.
C16_SamplesWithinVolume ==
    /\ (result.call = "generate_sine_wave" /\ result.raised = "None")
          => \A i \in DOMAIN result.value : Within(result.value[i], One)
    /\ (result.call = "Siren" /\ "name" \in DOMAIN request /\ siren # None
         /\ Within(EntryFor(request.name).volume.v, One)
         /\ ~EntryFor(request.name).volume.v.neg)
          => /\ Within(heap[siren.p].volume.v, One)
             /\ \A i \in DOMAIN siren.samples :
                    /\ Within(siren.samples[i], heap[siren.p].volume.v)
                    /\ Within(FMul(siren.samples[i], FInt(32767)), FInt(32767))
                    /\ InShort(Quantize(siren.samples[i]))
    /\ (result.call = "write_wav" /\ "name" \in DOMAIN request /\ siren # None
         /\ Within(EntryFor(request.name).volume.v, One)
         /\ ~EntryFor(request.name).volume.v.neg)
          => result.raised # "struct.error"

\* a Siren with a sample at full scale, 32767 when scaled, was written
C16_Witness ==
    /\ "name" \in DOMAIN request
    /\ siren # None
    /\ Returned
    /\ \E i \in DOMAIN siren.samples : Quantize(siren.samples[i]) = 32767
    /\ \E i \in DOMAIN siren.samples :
           siren.samples[i].neg /\ ~FIsZero(siren.samples[i])

\* the frames of a data chunk: signed 16-bit integers, low byte first
Frames(data) ==
    [i \in 1..(Len(data) \div 2) |->
        IF data[2 * i] >= 128
        THEN data[2 * i - 1] + 256 * data[2 * i] - 65536
        ELSE data[2 * i - 1] + 256 * data[2 * i]]

\* C17 as stated: each sample s is written as round(s x 32767).
C17_FramesRounded ==
    Returned =>
        Frames(Written.data)
          = [i \in DOMAIN WrittenSamples |->
               FRoundInt(FMul(WrittenSamples[i], FInt(32767)))]

\* x with its fraction dropped
TowardZero(x) == IF x.neg THEN -FFloor(FNeg(x)) ELSE FFloor(x)

\* C17 amended: each sample s is written as s x 32767 truncated toward
\* zero (positive and negative samples alike lose their fraction), as a
\* signed 16-bit integer, in buffer order.
C17_FramesTruncated ==
    Returned =>
        /\ Frames(Written.data)
             = [i \in DOMAIN WrittenSamples |->
                  TowardZero(FMul(WrittenSamples[i], FInt(32767)))]
        /\ Len(Written.data) = 2 * Len(WrittenSamples)

\* the samples 0.5 and -0.5 were written as 16383 and -16383
C17_Witness ==
    /\ Returned
    /\ "samples" \in DOMAIN request
    /\ request.samples = <<Dec(1, 2), Dec(-1, 2), One>>
    /\ Frames(Written.data) = <<16383, -16383, 32767>>

\* every sample of the buffer can be written
InRange(samples) == \A i \in DOMAIN samples : InShort(Quantize(samples[i]))

\* the file reads back as a mono 16-bit stream of as many frames as the
\* buffer has samples, at the rate passed in
ReadsBack ==
    /\ result.name \in DOMAIN disk
    /\ ~Written.open
    /\ Written.header # None
    /\ Written.header.nchannels = 1
    /\ Written.header.sampwidth = 2
    /\ Written.header.framerate = WrittenRate
    /\ Written.header.datalength = Len(Written.data)
    /\ Written.header.datalength
           \div (Written.header.nchannels * Written.header.sampwidth)
         = Len(WrittenSamples)

\* C18 as stated: for every buffer of samples in the range, the empty one
\* included, and every sample rate, the file write_wav produces (no I/O
\* error occurring) reads back as a mono 16-bit stream whose number of
\* frames is the length of the buffer and whose sample rate is the rate
\* passed in.
C18_RoundTripEveryRate ==
    (result.call = "write_wav" /\ result.raised # "OSError" /\ InRange(WrittenSamples))
        => ReadsBack

\* C18 amended: for every buffer of samples in the range, the empty one
\* included, and every sample rate that is a positive integer, write_wav
\* returns (no I/O error occurring) and the file reads back as a mono
\* 16-bit stream of as many frames as the buffer has samples, at the rate
\* passed in; with a rate <= 0 it raises wave.Error and leaves an empty
\* file without a header.
C18_RoundTripPositiveRate ==
    /\ Returned => ReadsBack
    /\ (result.call = "write_wav" /\ result.raised # "OSError"
         /\ InRange(WrittenSamples))
          => IF WrittenRate > 0 THEN Returned
             ELSE /\ result.raised = "wave.Error"
                  /\ Written = [open |-> FALSE, header |-> None, data |-> <<>>]

\* the empty buffer was written at 8000 Hz
C18_Witness ==
    /\ Returned
    /\ "samples" \in DOMAIN request
    /\ request.samples = <<>>
    /\ request.sample_rate = 8000
    /\ Written.header.framerate = 8000

\* C19: write_wav never leaves the file open: it returns the file name
\* only after every frame is written and the file is closed, and when
\* writing a sample fails on the way (an I/O error or a sample out of
\* range) the error reaches the caller with the file closed, a part of
\* the frames possibly written.
C19_FileClosedOnEveryExit ==
    /\ wf = None => \A name \in DOMAIN disk : ~disk[name].open
    /\ Returned
          => /\ result.value = Str(result.name)
             /\ ~Written.open
             /\ Len(Written.data) = 2 * Len(WrittenSamples)
             /\ \A i \in DOMAIN WrittenSamples : InShort(Quantize(WrittenSamples[i]))
    /\ (result.call = "write_wav" /\ result.raised \in {"struct.error", "OSError"}
         /\ result.name \in DOMAIN disk)
          => /\ ~Written.open
             /\ Len(Written.data) < 2 * Len(WrittenSamples)
    /\ (result.call = "write_wav"
         /\ \E i \in DOMAIN WrittenSamples : ~InShort(Quantize(WrittenSamples[i])))
          => result.raised # "None"

\* a sample out of range stopped the write after two frames
C19_Witness ==
    /\ result.call = "write_wav"
    /\ result.raised = "struct.error"
    /\ Len(Written.data) = 4
    /\ ~Written.open

-----------------------------------------------------------------------------
(* Properties of the lookup of the registry (SpecRegistry).               *)

\* C20: after a successful register_custom_siren(name, preset), name is a
\* key of PRESETS and get_available_sirens() maps name to the description
\* of the preset, or to "Custom <name> siren" when the preset had none,
\* for a new name and for a name that had an entry already; and what
\* get_available_sirens() returns is that mapping of the registry.
C20_RegisteredNameIsAvailable ==
    [][/\ (result'.call = "register_custom_siren" /\ result'.raised = "None")
          => /\ result'.name \in DOMAIN PRESETS'
             /\ AvailableSirens(PRESETS', heap')[result'.name]
                  = IF "description" \in DOMAIN heap[caller]
                    THEN heap[caller].description
                    ELSE Str("Custom " \o result'.name \o " siren")
       /\ result'.call = "get_available_sirens"
          => /\ result'.value = AvailableSirens(PRESETS, heap)
             /\ DOMAIN result'.value = DOMAIN PRESETS
             /\ \A name \in DOMAIN PRESETS :
                    "description" \in DOMAIN Registry[name]
                      => result'.value[name] = Registry[name].description]_vars

\* get_available_sirens() after a preset without a description replaced
\* the entry of "police" and one with a description was stored as
\* "custom"
C20_Witness ==
    /\ result.call = "get_available_sirens"
    /\ "custom" \in DOMAIN result.value
    /\ result.value["police"] = Str("Custom police siren")
    /\ result.value["custom"] = Str("My siren")

-----------------------------------------------------------------------------
(* generate_siren_signal, one turn of its while loop at a time.           *)

MaxCycles == 6
MaxBurst == 3

\* the pause of lines 93-95: [0] * int(pause_duration * sample_rate)
pause_segment(tone_duration, duty_cycle, rate) ==
    [kind |-> "silence", freq |-> "",
     n |-> FTrunc(FMul(FDiv(FMul(FMul(tone_duration, FInt(2)), FSub(One, duty_cycle)),
                            duty_cycle),
                       FInt(rate)))]

\* a turn that takes burst_size cycles off the counter whatever is left
while_body_whole_burst(signal, remaining_cycles, burst_size, low, high, pause) ==
    [signal |-> signal
                  \o [i \in 1..(2 * Min(remaining_cycles, burst_size)) |->
                        IF i % 2 = 1 THEN low ELSE high]
                  \o (IF remaining_cycles - burst_size > 0 THEN <<pause>> ELSE <<>>),
     remaining_cycles |-> remaining_cycles - burst_size]

\* a turn whose cycles are the second tone, then the first
while_body_high_first(signal, remaining_cycles, burst_size, low, high, pause) ==
    [signal |-> signal
                  \o [i \in 1..(2 * Min(remaining_cycles, burst_size)) |->
                        IF i % 2 = 1 THEN high ELSE low]
                  \o (IF remaining_cycles - Min(remaining_cycles, burst_size) > 0
                      THEN <<pause>> ELSE <<>>),
     remaining_cycles |-> remaining_cycles - Min(remaining_cycles, burst_size)]

\* one turn of the while loop, lines 79-95: the locals signal and
\* remaining_cycles after it
while_body(signal, remaining_cycles, burst_size, low, high, pause) ==
    LET Turn(burst, remaining) ==
            [signal |-> signal
                          \o [i \in 1..(2 * burst) |-> IF i % 2 = 1 THEN low ELSE high]
                          \o (IF remaining > 0 THEN <<pause>> ELSE <<>>),
             remaining_cycles |-> remaining]
        Burst(burst) == Turn(burst, remaining_cycles - burst)
    IN  Burst(Min(remaining_cycles, burst_size))

\* generate_siren_signal(...) is called: lines 70-77.  The jitter of the
\* frequencies not being modelled, the tones of a call are all alike:
\* what generate_sine_wave does for them (lines 89-90) and the pause of
\* lines 93-95 are worked out here, once.  The field iterations is no
\* local of the code: it counts the turns taken.
siren_signal_called ==
    /\ request # None
    /\ "burst_size" \in DOMAIN request
    /\ loop = None
    /\ result.call # "generate_siren_signal"
    /\ \E low \in {generate_sine_wave("freq1", request.tone_duration, request.sample_rate,
                                      request.attack, request.decay)},
          high \in {generate_sine_wave("freq2", request.tone_duration, request.sample_rate,
                                       request.attack, request.decay)},
          pause \in {pause_segment(request.tone_duration, request.duty_cycle,
                                   request.sample_rate)} :
           loop' = [signal |-> <<>>, remaining_cycles |-> request.cycles,
                    iterations |-> 0, low |-> low, high |-> high, pause |-> pause]
    /\ UNCHANGED <<PRESETS, heap, caller, request, siren, result, wf, disk>>

\* the test of line 78 passes and the body runs; a tone that cannot be
\* synthesized ends the call with its exception
siren_signal_burst ==
    /\ loop # None
    /\ loop.remaining_cycles > 0
    /\ IF loop.low.raised # "None"
       THEN /\ result' = [call |-> "generate_siren_signal", name |-> "",
                          raised |-> loop.low.raised, value |-> None]
            /\ loop' = None
       ELSE /\ \E turn \in {while_body(loop.signal, loop.remaining_cycles,
                                       request.burst_size, loop.low.seg,
                                       loop.high.seg, loop.pause)} :
                   loop' = [loop EXCEPT !.signal = turn.signal,
                                        !.remaining_cycles = turn.remaining_cycles,
                                        !.iterations = @ + 1]
            /\ UNCHANGED result
    /\ UNCHANGED <<PRESETS, heap, caller, request, siren, wf, disk>>

\* the test of line 78 fails: line 98 returns the signal
siren_signal_returned ==
    /\ loop # None
    /\ ~(loop.remaining_cycles > 0)
    /\ result' = [call |-> "generate_siren_signal", name |-> "", raised |-> "None",
                  value |-> loop.signal]
    /\ loop' = None
    /\ UNCHANGED <<PRESETS, heap, caller, request, siren, wf, disk>>

\* the calls made: every cycle count from -1 on, every burst size from 1
\* on, a tone of 0.4 s and one too short to be synthesized
SignalRequests ==
    [tone_duration : {Dec(4, 10), Dec(3, 100000)}, attack : {Dec(5, 100)},
     decay : {Dec(5, 100)}, cycles : -1..MaxCycles, duty_cycle : {Dec(8, 10)},
     burst_size : 1..MaxBurst, sample_rate : {sample_rate}]

InitLoop ==
    /\ Init!1 /\ Init!2 /\ Init!3 /\ Init!5 /\ Init!6 /\ Init!7 /\ Init!8 /\ Init!9
    /\ request \in SignalRequests

NextLoop ==
    \/ siren_signal_called
    \/ siren_signal_burst
    \/ siren_signal_returned

\* a call that has started is run on: the interpreter takes the next turn
\* of the loop, or the return, whenever there is one to take
SpecLoop ==
    /\ InitLoop
    /\ [][NextLoop]_vars
    /\ WF_vars(siren_signal_burst)
    /\ WF_vars(siren_signal_returned)

-----------------------------------------------------------------------------
(* Properties of the burst loop (SpecLoop).                               *)

\* ceil(a / b) for b > 0
Ceil(a, b) == IF a <= 0 THEN 0 ELSE (a + b - 1) \div b

\* the loop takes another turn
LoopTurn == loop # None /\ loop' # None

\* the loop is left by the return of line 98
LoopExit == loop # None /\ loop' = None /\ result'.raised = "None"

\* C21: the while loop of generate_siren_signal terminates for every
\* cycles >= 0 and burst_size >= 1: each turn makes remaining_cycles
\* strictly smaller, the counter is never negative, the loop is left
\* exactly when it is 0, after ceil(cycles / burst_size) turns, and with
\* cycles <= 0 after no turn and with an empty signal
C21_LoopTerminates ==
    /\ [][LoopTurn => /\ loop'.remaining_cycles < loop.remaining_cycles
                      /\ loop'.iterations = loop.iterations + 1]_vars
    /\ []((loop # None /\ request.cycles >= 0) => loop.remaining_cycles >= 0)
    /\ [][LoopExit => /\ request.cycles >= 0 => loop.remaining_cycles = 0
                      /\ loop.iterations = Ceil(request.cycles, request.burst_size)
                      /\ request.cycles <= 0 => loop.signal = <<>>]_vars
    /\ [][(loop # None /\ loop.remaining_cycles = 0) => loop' = None]_vars
    /\ (loop # None) ~> (loop = None /\ result.call = "generate_siren_signal")

\* a call of 5 cycles in bursts of 2 has returned after 3 turns
C21_Witness ==
    /\ request.cycles = 5
    /\ request.burst_size = 2
    /\ result.call = "generate_siren_signal"
    /\ result.raised = "None"
    /\ Len(result.value) = 12

\* the signal a call has returned
Track == result.value

TrackReturned == result.call = "generate_siren_signal" /\ result.raised = "None"

\* the positions of the tones and of the gaps of the track
TonesAt == {i \in DOMAIN Track : Track[i].kind = "tone"}
GapsAt == {i \in DOMAIN Track : Track[i].kind = "silence"}

\* the number of bursts of a track of cycles cycles
Bursts(cycles, burst_size) == Ceil(cycles, burst_size)

\* what stands at place i of a track cut in bursts of burst_size cycles:
\* 2 x burst_size tones, the first-frequency (low) one first, then a gap
SegmentAt(i, burst_size) ==
    LET Place(q) ==
            IF q = 2 * burst_size THEN [kind |-> "silence", freq |-> ""]
            ELSE IF q % 2 = 0 THEN [kind |-> "tone", freq |-> "freq1"]
            ELSE [kind |-> "tone", freq |-> "freq2"]
    IN  Place((i - 1) % (2 * burst_size + 1))

\* C22: the track generate_siren_signal returns is made of exactly
\* 2 x cycles tones, low (first frequency) then high (second frequency)
\* in turn and the low one first, in bursts of burst_size cycles, the last
\* one alone possibly shorter, with one gap between two bursts, none
\* before the first burst, none after the last, and so none at all when
\* cycles <= burst_size
C22_TrackOfBursts ==
    TrackReturned =>
        /\ Cardinality(TonesAt) = 2 * (IF request.cycles > 0 THEN request.cycles ELSE 0)
        /\ Cardinality(GapsAt) =
               (IF request.cycles > 0
                THEN Bursts(request.cycles, request.burst_size) - 1 ELSE 0)
        /\ \A i \in DOMAIN Track :
               /\ Track[i].kind = SegmentAt(i, request.burst_size).kind
               /\ Track[i].freq = SegmentAt(i, request.burst_size).freq
        /\ Track # <<>> => Track[1].kind = "tone" /\ Track[Len(Track)].kind = "tone"
        /\ request.cycles <= request.burst_size => GapsAt = {}

\* 4 cycles in bursts of 3: three cycles, the gap, and the last cycle
C22_Witness ==
    /\ TrackReturned
    /\ request.cycles = 4
    /\ request.burst_size = 3
    /\ GapsAt = {7}
    /\ TonesAt = (1..9) \ {7}

-----------------------------------------------------------------------------
(* The registry and a caller that goes on using the dict it registered.   *)

\* preset[key] = value, in the calling code
preset_setitem(key, value) ==
    /\ caller # NoRef
    /\ heap' = [heap EXCEPT ![caller] = DictSet(@, key, value)]
    /\ result' = [call |-> "setitem", name |-> key, raised |-> "None", value |-> None]
    /\ UNCHANGED <<PRESETS, caller, request, siren, wf, disk, loop>>

\* the items the calling code sets: a volume out of range, another tone
Items ==
    {[key |-> "volume", value |-> PyFloat(15, 10)],
     [key |-> "tone_duration", value |-> PyFloat(1, 10)]}

NextCaller ==
    \/ \E d \in {valid_preset, described_preset} : NewPreset(d)
    \/ \E name \in RegNames : register_custom_siren(name)
    \/ \E item \in Items : preset_setitem(item.key, item.value)

SpecCaller == Init /\ [][NextCaller]_vars

\* C23: once register_custom_siren(name, preset) has succeeded, what the
\* caller sets in the dict it passed, described or not, changes no entry
\* of PRESETS, so that an entry validate_siren_preset has accepted stays
\* one it accepts until the next registration
C23_EntryUnchangedByCaller ==
    [][result'.call = "setitem"
         => /\ Registry' = Registry
            /\ \A n \in DOMAIN PRESETS :
                   validate_siren_preset(Registry[n]).is_valid
                       => validate_siren_preset(Registry'[n]).is_valid]_vars

-----------------------------------------------------------------------------
(* The length of the track (SpecSynth).                                   *)

\* total_duration x sample_rate, the samples asked for
RequestedSamples == FMul(siren.total_duration, FInt(siren.sample_rate))

\* C24: for a preset with tone_duration > 0, any traffic density and any
\* total_duration >= 0, the track is never longer than asked for: the
\* samples of Siren.samples, tones and gaps together, are at most
\* total_duration x sample_rate
C24_TrackWithinDuration ==
    (/\ siren # None
     /\ FCmp(siren.tone_duration.v, FZero) > 0
     /\ FCmp(siren.total_duration, FZero) >= 0)
        => FCmp(FInt(SignalLen(siren.samples)), RequestedSamples) <= 0

\* a track of 3 s asked for in light traffic, with gaps in it, that is
\* shorter than 3 s
C24_Witness ==
    /\ siren # None
    /\ siren.total_duration = FInt(3)
    /\ siren.traffic_density = "light"
    /\ \E i \in DOMAIN siren.samples : siren.samples[i].kind = "silence"
    /\ siren.cycles > siren.burst_size
    /\ SignalLen(siren.samples) > 88200
    /\ SignalLen(siren.samples) < 132300

-----------------------------------------------------------------------------
(* sirens/__init__.py: the Siren class of the package root.               *)

\* Siren.presets, the table of the class: the four built-in presets,
\* without descriptions
sirens_Siren_presets ==
    [n \in {BuiltinNames[i] : i \in 1..4} |-> DictDel(InitialPresets[n], "description")]

\* Siren._estimate_db of the package root, with max_db = self.p["max_db"]
sirens_Siren_estimate_db(max_db, distance, night_mode) ==
    LET Limited(estimated_db) ==
            FRound1(IF night_mode /\ FCmp(FInt(90), estimated_db) < 0
                    THEN FInt(90) ELSE estimated_db)
        Reduced(db_reduction) == Limited(FSub(max_db, db_reduction))
    IN  IF FCmp(distance, FZero) <= 0 THEN max_db
        ELSE Reduced(FMul(FInt(20), log10(distance)))

\* Siren.__init__ of the package root up to line 112, and what its
\* get_info then gives as estimated_db: self.p, a copy of the entry of
\* the class table with its volume adjusted, the pattern, the cycles
sirens_Siren(name, total_duration, night_mode, traffic_density, distance) ==
    LET Counted(p, pattern) ==
            [p |-> [p EXCEPT !.volume =
                        Num(AdjustedVolume(p.volume.v, night_mode, distance))],
             duty_cycle |-> pattern.duty_cycle,
             burst_size |-> pattern.burst_size,
             cycles |-> FTrunc(FMul(FDiv(total_duration,
                                         FMul(FInt(2), p.tone_duration.v)),
                                    pattern.duty_cycle)),
             estimated_db |-> sirens_Siren_estimate_db(p.max_db.v, distance, night_mode)]
    IN  Counted(IF name \in DOMAIN sirens_Siren_presets
                THEN sirens_Siren_presets[name] ELSE sirens_Siren_presets["police"],
                Pattern(traffic_density))

\* what the Siren of the package root is for the request made
RootSiren ==
    sirens_Siren(request.name, request.total_duration, request.night_mode,
                 request.traffic_density, request.distance)

\* root, a Siren of the package root, and the Siren of sirens.core have
\* the same preset, effective volume, duty cycle, burst size and cycles
SameSiren(root) ==
    /\ \A f \in {"freqs", "tone_duration", "attack", "decay", "max_db"} :
           root.p[f] = heap[siren.p][f]
    /\ root.p.volume = heap[siren.p].volume
    /\ root.duty_cycle = siren.duty_cycle
    /\ root.burst_size = siren.burst_size
    /\ root.cycles = siren.cycles

\* C25: for the same registry and the same name, total_duration,
\* night_mode, traffic_density and distance, names registered through
\* register_custom_siren and distances between 0 and 1 included, the
\* Siren of the package root and sirens.core.Siren have the same preset,
\* effective volume, duty cycle, burst size, cycle count and estimated dB
C25_RootSirenEquivalent ==
    /\ siren # None => SameSiren(RootSiren)
    /\ result.call = "get_info" => result.value.estimated_db = Num(RootSiren.estimated_db)
====
